---------------------------- MODULE Spec2Model ----------------------------
(***************************************************************************)
(* Movement scheduling of the grid agent.                                  *)
(*                                                                         *)
(*   index.js            Player with moveQueue, _isMoving, _isInterrupted  *)
(*                       (flag-based processing loop, timer restart)       *)
(*   unnamed/part_001    destQueue, processing, movementToken              *)
(*                       (token-based processing loop, clearQueue)         *)
(*                                                                         *)
(* JavaScript runs one task at a time.  An action of this module is one    *)
(* task of the event loop: an input handler, a timer callback, or the      *)
(* continuation of an `await` (a microtask).  Microtasks are drained       *)
(* before the next task starts, so every other action is disabled while a  *)
(* continuation is pending.                                                *)
(***************************************************************************)
EXTENDS Integers, Sequences, FiniteSets, TLC

\* ------------------------------------------------------------------ bounds

\* Grid width and height (index.js builds 20 x 10; the model uses a small grid).
W == 3
H == 3
\* Number of external requests (moveTo, moveToPriority, stopAllMovement) in a run.
MaxReq == 3
\* Number of requests in a run whose requests are all moveTo.
MaxEnq == 4
\* Number of requests in a run from an arbitrary start on the open grid.
MaxWalk == 1
\* Number of inputs (clicks, double clicks, Space presses) in a run of part_001.
MaxInput == 4

\* ------------------------------------------------------------------- grid

Cells == (0 .. W - 1) \X (0 .. H - 1)

NoCell == <<-9, -9>>

\* Wall sets of the grids the model is run on: the open grid, and a grid
\* whose tile (2,0) is land but walled off from the rest.
Layouts == { {}, { <<1, 0>>, <<2, 1>> } }

GridOf(walls) == [c \in Cells |-> IF c \in walls THEN "wall" ELSE "land"]

\* Coordinates the requests are drawn from: tiles of the grid, and one
\* coordinate right of the last column (outside the grid).
OutCell == <<W, 0>>
Dests == { <<0, 0>>, <<1, 1>>, <<2, 0>>, <<1, 0>>, <<0, 2>>, OutCell }

InBounds(c) == c[1] >= 0 /\ c[1] < W /\ c[2] >= 0 /\ c[2] < H

Abs(n) == IF n < 0 THEN -n ELSE n

\* The element of a one-element set.  {F(v) : v \in {e}} evaluates e once and
\* hands its value to F, which keeps the recursive definitions below linear.
Only(S) == CHOOSE x \in S : TRUE

Manhattan(a, b) == Abs(a[1] - b[1]) + Abs(a[2] - b[2])


\* ------------------------------------------- index.js: breadth-first search

\* Variant for C10: dirs without its last entry (left).
Dirs_NoLeft == << <<0, -1>>, <<1, 0>>, <<0, 1>> >>

\* const dirs (up, right, down, left).
Dirs == << <<0, -1>>, <<1, 0>>, <<0, 1>>, <<-1, 0>> >>

\* Variant for C11: the neighbour is put at the front of the queue (a stack).
RECURSIVE Expand_Front(_, _, _, _)
Expand_Front(g, cur, k, st) ==
  IF k > Len(Dirs) THEN st
  ELSE LET n == <<cur[1] + Dirs[k][1], cur[2] + Dirs[k][2]>> IN
       IF ~InBounds(n) \/ n \in st.visited \/ g[n] # "land"
       THEN Expand_Front(g, cur, k + 1, st)
       ELSE Only({Expand_Front(g, cur, k + 1, v) :
                    v \in {[queue   |-> <<n>> \o st.queue,
                            visited |-> st.visited \cup {n},
                            parents |-> [st.parents EXCEPT ![n] = cur]]}})

\* The `for (const [dx, dy] of dirs)` loop of the search, from direction k on.
\* st = [queue, visited, parents].
RECURSIVE Expand(_, _, _, _)
Expand(g, cur, k, st) ==
  IF k > Len(Dirs) THEN st
  ELSE LET n == <<cur[1] + Dirs[k][1], cur[2] + Dirs[k][2]>> IN
       IF ~InBounds(n) \/ n \in st.visited \/ g[n] # "land"
       THEN Expand(g, cur, k + 1, st)
       ELSE Only({Expand(g, cur, k + 1, v) :
                    v \in {[queue   |-> Append(st.queue, n),
                            visited |-> st.visited \cup {n},
                            parents |-> [st.parents EXCEPT ![n] = cur]]}})

\* The `while (queue.length)` loop of the search.
RECURSIVE Search(_, _, _)
Search(g, goal, st) ==
  IF st.queue = <<>> THEN [found |-> FALSE, parents |-> st.parents]
  ELSE LET cur == Head(st.queue) IN
       IF cur = goal THEN [found |-> TRUE, parents |-> st.parents]
       ELSE Only({Search(g, goal, v) :
                    v \in {Expand(g, cur, 1, w) :
                             w \in {[st EXCEPT !.queue = Tail(st.queue)]}}})

\* `while (curKey) { path.push(...); curKey = parents.get(curKey) }`: goal first.
RECURSIVE PathPush(_, _)
PathPush(parents, c) ==
  IF c = NoCell THEN <<>> ELSE <<c>> \o PathPush(parents, parents[c])

Reverse(s) == [k \in 1 .. Len(s) |-> s[Len(s) + 1 - k]]

\* The search and the reconstruction of _executeMoveTo: the path from start to
\* goal, both included, or <<>> when the goal was not found.
FindPathBFS(g, start, goal) ==
  Only({IF r.found THEN Reverse(PathPush(r.parents, goal)) ELSE <<>> :
          r \in {Search(g, goal, [queue   |-> <<start>>,
                                  visited |-> {start},
                                  parents |-> [c \in Cells |-> NoCell]])}})

\* ------------------------------------------------------------ index.js: state

VARIABLES
  grid,            \* Ship.grid: tileType of every cell
  moveQueue,       \* Player.moveQueue: sequence of [dest, id]
  isMoving,        \* Player._isMoving
  isInterrupted,   \* Player._isInterrupted
  pos,             \* (Player.x, Player.y)
  placedCell,      \* coordinates of Player._placedCell
  entity,          \* the cells whose `entity` is the player
  badges,          \* Player.destinationBadges: set of [cell, text]
  loops,           \* suspended invocations of _processMoveQueue
  restartTimers,   \* pending setTimeout(() => _processMoveQueue(), 0)
  reqNo,           \* history: number of requests made so far
  last,            \* history: the task that ran last
  lastReq,         \* history: the latest request
  stepId,          \* history: entry of the latest step since the latest request
  lastPop,         \* history: the latest moveQueue.shift() of the loop
  noPreempt,       \* history: no moveToPriority or stopAllMovement so far
  lastPrio,        \* history: the request number of the latest moveToPriority
  direct,          \* the same Player with the restart made by a direct call,
                   \* given the same requests and timers; off unless
                   \* the run starts with it
  ship             \* Ship.clickTimer, the pending single-click timers, and
                   \* history: the clicks so far, the timer fired last, the
                   \* double-clicks so far, the clicks of the gesture

\* ---------------------------------------------------------- part_001: state

VARIABLES
  script,          \* the script the page runs: "index.js" or "part_001"
  tiles,           \* Ship.grid: className of every tile
  customer,        \* the tile whose hasCustomer is set
  shipPlayer,      \* (shipObj.player.row, shipObj.player.col)
  destQueue,       \* destQueue: sequence of <<row, col>>
  processing,      \* processing
  movementToken,   \* movementToken
  lastClicked,     \* lastClicked, NoCell for null
  spaceSeen,       \* lastSpaceTs is the time of a Space press
  procs,           \* suspended invocations of processQueue
  waiters,         \* handlers suspended in `await clearQueue()`
  paintMode,       \* paintMode
  currentType,     \* currentType
  inputs,          \* history: number of inputs so far
  finds,           \* history: the findPath calls of the latest task
  shifts           \* history: the destQueue.shift() of processQueue in the latest task

\* The ship: tile classes, the customer, and the paint tool.
shipvars == <<tiles, customer, paintMode, currentType>>

p1vars == <<shipvars, shipPlayer, destQueue, processing, movementToken,
            lastClicked, spaceSeen, procs, waiters, inputs, finds, shifts>>

indexvars == <<grid, moveQueue, isMoving, isInterrupted, pos, placedCell, entity,
               badges, loops, restartTimers, reqNo, last, lastReq, stepId,
               lastPop, noPreempt, lastPrio, direct, ship>>

vars == <<script, indexvars, p1vars>>

NoPop == [id |-> 0, dest |-> NoCell, by |-> 0, pos |-> NoCell, from |-> NoCell,
          steps |-> 0]

\* new Ship(..): clickTimer is null (0) and no timer is pending.
NoClicks ==
  [clickTimer |-> 0, timers |-> {}, clicks |-> 0, fired |-> 0, dbls |-> 0,
   gesture |-> [cell |-> NoCell, n |-> 0]]

NoReq == [kind |-> "none", dest |-> NoCell, id |-> 0, pos |-> NoCell,
          inflight |-> FALSE]

\* The fields of the Player object (and the history the loop writes) as a record.
Player ==
  [moveQueue |-> moveQueue, isMoving |-> isMoving, isInterrupted |-> isInterrupted,
   pos |-> pos, placedCell |-> placedCell, entity |-> entity, badges |-> badges,
   loops |-> loops, restartTimers |-> restartTimers,
   stepId |-> stepId, lastPop |-> lastPop]

Install(p) ==
  /\ moveQueue' = p.moveQueue
  /\ isMoving' = p.isMoving
  /\ isInterrupted' = p.isInterrupted
  /\ pos' = p.pos
  /\ placedCell' = p.placedCell
  /\ entity' = p.entity
  /\ badges' = p.badges
  /\ loops' = p.loops
  /\ restartTimers' = p.restartTimers
  /\ stepId' = p.stepId
  /\ lastPop' = p.lastPop
  /\ UNCHANGED <<script, p1vars>>

\* --------------------------------------------------- index.js: Player methods

\* The second loop of _updateDestinationBadges over moveQueue from index i, after
\* the map was cleared.  grid[y][x] of a coordinate outside the grid is undefined
\* and the access to its element throws: threw is TRUE and the badges made so
\* far stay.
RECURSIVE BadgeLoop(_, _, _)
BadgeLoop(q, i, acc) ==
  IF i > Len(q) THEN [badges |-> acc, threw |-> FALSE]
  ELSE IF \E b \in acc : b.cell = q[i].dest THEN BadgeLoop(q, i + 1, acc)
  ELSE IF ~InBounds(q[i].dest) THEN [badges |-> acc, threw |-> TRUE]
  ELSE Only({BadgeLoop(q, i + 1, v) :
               v \in {acc \cup {[cell |-> q[i].dest, text |-> i]}}})

UpdateDestinationBadges(q) == BadgeLoop(q, 1, {})

\* A suspended invocation of _processMoveQueue: in the step delay of
\* _executeMoveTo ("sleep", at index i of path, 0-based as in the source), or at
\* `await this._executeMoveTo(...)` with the call already returned ("await").
\* id is the request that made the entry and steps counts the steps committed
\* for it (history).
Sleeping(path, i, e) ==
  [pc |-> "sleep", path |-> path, i |-> i, id |-> e.id, dest |-> e.dest,
   from |-> path[1], steps |-> i]
Returned(e, from, steps) ==
  [pc |-> "await", path |-> <<>>, i |-> 0, id |-> e.id, dest |-> e.dest,
   from |-> from, steps |-> steps]

Suspend(p, l) == [p EXCEPT !.loops = Append(@, l)]

\* Variant for C6: a finally block that clears the flag without the restart.
Finally_NoRestart(p) ==
  [p EXCEPT !.isMoving = FALSE, !.isInterrupted = FALSE]

\* The finally block of _processMoveQueue.
Finally(p) ==
  [p EXCEPT !.isMoving = FALSE,
            !.isInterrupted = FALSE,
            !.restartTimers = IF p.isInterrupted THEN @ + 1 ELSE @]

\* Variant for C5: an animation loop without the check of _isInterrupted.
ForStep_NoInterruptCheck(p, path, i, e) ==
  IF i >= Len(path) THEN Suspend(p, Returned(e, path[1], i - 1))
  ELSE LET next == path[i + 1] IN
       Suspend([p EXCEPT !.entity = (@ \ {p.placedCell}) \cup {next},
                         !.placedCell = next,
                         !.pos = next,
                         !.stepId = e.id],
               Sleeping(path, i, e))

\* Variant for C17: the previous cell keeps its entity.
ForStep_KeepPrev(p, path, i, e) ==
  IF i >= Len(path) THEN Suspend(p, Returned(e, path[1], i - 1))
  ELSE IF p.isInterrupted THEN Suspend(p, Returned(e, path[1], i - 1))
  ELSE LET next == path[i + 1] IN
       Suspend([p EXCEPT !.entity = @ \cup {next},
                         !.placedCell = next,
                         !.pos = next,
                         !.stepId = e.id],
               Sleeping(path, i, e))

\* The animation loop of _executeMoveTo from its test `i < path.length`.
ForStep(p, path, i, e) ==
  IF i >= Len(path) THEN Suspend(p, Returned(e, path[1], i - 1))
  ELSE IF p.isInterrupted THEN Suspend(p, Returned(e, path[1], i - 1))
  ELSE LET next == path[i + 1] IN
       Suspend([p EXCEPT !.entity = (@ \ {p.placedCell}) \cup {next},
                         !.placedCell = next,
                         !.pos = next,
                         !.stepId = e.id],
               Sleeping(path, i, e))

\* Variant for C32: the animation loop starts at the third cell of the path.
ExecuteMoveTo_FromThird(p, e) ==
  IF ~InBounds(e.dest) THEN Suspend(p, Returned(e, p.placedCell, 0))
  ELSE IF p.placedCell = e.dest THEN Suspend(p, Returned(e, p.placedCell, 0))
  ELSE IF grid[e.dest] # "land" THEN Suspend(p, Returned(e, p.placedCell, 0))
  ELSE Only({IF Len(path) <= 1 THEN Suspend(p, Returned(e, p.placedCell, 0))
             ELSE ForStep(p, path, 2, e) :
               path \in {FindPathBFS(grid, p.placedCell, e.dest)}})

\* _executeMoveTo up to its first suspension.
ExecuteMoveTo(p, e) ==
  IF ~InBounds(e.dest) THEN Suspend(p, Returned(e, p.placedCell, 0))
  ELSE IF p.placedCell = e.dest THEN Suspend(p, Returned(e, p.placedCell, 0))
  ELSE IF grid[e.dest] # "land" THEN Suspend(p, Returned(e, p.placedCell, 0))
  ELSE Only({IF Len(path) <= 1 THEN Suspend(p, Returned(e, p.placedCell, 0))
             ELSE ForStep(p, path, 1, e) :
               path \in {FindPathBFS(grid, p.placedCell, e.dest)}})

\* _processMoveQueue from the test of its while loop.
WhileTest(p) ==
  IF Len(p.moveQueue) = 0 THEN Finally(p)
  ELSE IF p.isInterrupted THEN Finally(p)
  ELSE ExecuteMoveTo(p, Head(p.moveQueue))

\* Array.prototype.shift: an empty array stays empty.
Shift(q) == IF q = <<>> THEN q ELSE Tail(q)

\* Variant for C25: the loop removes the head before it looks at the flag.
AfterExec_PopOnInterrupt(p, l) ==
  LET q == Shift(p.moveQueue)
      b == UpdateDestinationBadges(q)
      h == IF p.moveQueue = <<>> THEN [dest |-> NoCell, id |-> 0]
           ELSE Head(p.moveQueue)
      p1 == [p EXCEPT !.moveQueue = q,
                      !.badges = b.badges,
                      !.lastPop = [id |-> h.id, dest |-> h.dest,
                                   by |-> l.id, pos |-> p.pos,
                                   from |-> l.from, steps |-> l.steps]]
  IN  IF p.isInterrupted \/ b.threw THEN Finally(p1) ELSE WhileTest(p1)

\* Variant for C20: the loop removes two entries after a traversal.
AfterExec_ShiftTwice(p, l) ==
  IF p.isInterrupted THEN Finally(p)
  ELSE LET q == Shift(Shift(p.moveQueue))
           b == UpdateDestinationBadges(q)
           h == IF p.moveQueue = <<>> THEN [dest |-> NoCell, id |-> 0]
                ELSE Head(p.moveQueue)
           p1 == [p EXCEPT !.moveQueue = q,
                           !.badges = b.badges,
                           !.lastPop = [id |-> h.id, dest |-> h.dest,
                                        by |-> l.id, pos |-> p.pos,
                                        from |-> l.from, steps |-> l.steps]]
       IN  IF b.threw THEN Finally(p1) ELSE WhileTest(p1)

\* _processMoveQueue after `await this._executeMoveTo(...)`, resumed as loop l.
AfterExec(p, l) ==
  IF p.isInterrupted THEN Finally(p)
  ELSE LET q == Shift(p.moveQueue)
           b == UpdateDestinationBadges(q)
           h == IF p.moveQueue = <<>> THEN [dest |-> NoCell, id |-> 0]
                ELSE Head(p.moveQueue)
           p1 == [p EXCEPT !.moveQueue = q,
                           !.badges = b.badges,
                           !.lastPop = [id |-> h.id, dest |-> h.dest,
                                        by |-> l.id, pos |-> p.pos,
                                        from |-> l.from, steps |-> l.steps]]
       IN  IF b.threw THEN Finally(p1) ELSE WhileTest(p1)

\* Variant for C4: _processMoveQueue without the guard on _isMoving.
ProcessMoveQueue_NoGuard(p) ==
  WhileTest([p EXCEPT !.isMoving = TRUE, !.isInterrupted = FALSE])

\* Variant for C31: _processMoveQueue without `this._isInterrupted = false`.
ProcessMoveQueue_KeepFlag(p) ==
  IF p.isMoving THEN p
  ELSE WhileTest([p EXCEPT !.isMoving = TRUE])

\* _processMoveQueue from its entry.
ProcessMoveQueue(p) ==
  IF p.isMoving THEN p
  ELSE WhileTest([p EXCEPT !.isMoving = TRUE, !.isInterrupted = FALSE])

\* Variant for C1: moveTo puts the entry at the front (unshift for push).
PlayerMoveTo_Unshift(p, e) ==
  LET q == <<e>> \o p.moveQueue
      b == UpdateDestinationBadges(q)
      p1 == [p EXCEPT !.moveQueue = q, !.badges = b.badges]
  IN  IF b.threw THEN p1 ELSE ProcessMoveQueue(p1)

\* Variant for C7: moveTo raises the interrupt flag as moveToPriority does.
PlayerMoveTo_Interrupting(p, e) ==
  LET q == Append(p.moveQueue, e)
      b == UpdateDestinationBadges(q)
      p1 == [p EXCEPT !.isInterrupted = TRUE, !.moveQueue = q, !.badges = b.badges]
  IN  IF b.threw THEN p1 ELSE ProcessMoveQueue(p1)

\* moveTo(cell, x, y): the exception of _updateDestinationBadges leaves the call
\* before _processMoveQueue.
PlayerMoveTo(p, e) ==
  LET q == Append(p.moveQueue, e)
      b == UpdateDestinationBadges(q)
      p1 == [p EXCEPT !.moveQueue = q, !.badges = b.badges]
  IN  IF b.threw THEN p1 ELSE ProcessMoveQueue(p1)

\* Variant for C2: moveToPriority without `this.moveQueue = []`.
PlayerMoveToPriority_KeepQueue(p, e) ==
  LET q == Append(p.moveQueue, e)
      b == UpdateDestinationBadges(q)
      p1 == [p EXCEPT !.isInterrupted = TRUE, !.moveQueue = q, !.badges = b.badges]
  IN  IF b.threw THEN p1
      ELSE IF ~p1.isMoving THEN ProcessMoveQueue(p1) ELSE p1

\* moveToPriority(cell, x, y).
PlayerMoveToPriority(p, e) ==
  LET b == UpdateDestinationBadges(<<e>>)
      p1 == [p EXCEPT !.isInterrupted = TRUE, !.moveQueue = <<e>>, !.badges = b.badges]
  IN  IF b.threw THEN p1
      ELSE IF ~p1.isMoving THEN ProcessMoveQueue(p1) ELSE p1

\* Variant for C3: stopAllMovement without the interrupt flag.
PlayerStopAllMovement_NoFlag(p) ==
  [p EXCEPT !.moveQueue = <<>>, !.badges = UpdateDestinationBadges(<<>>).badges]

\* stopAllMovement().
PlayerStopAllMovement(p) ==
  [p EXCEPT !.isInterrupted = TRUE, !.moveQueue = <<>>,
            !.badges = UpdateDestinationBadges(<<>>).badges]

RemoveAt(s, k) == SubSeq(s, 1, k - 1) \o SubSeq(s, k + 1, Len(s))

\* ------------- index.js: the loop with the restart made by a direct call

\* _processMoveQueue with `this._processMoveQueue()` in place of
\* `setTimeout(() => this._processMoveQueue(), 0)` in its finally block: the
\* same methods, re-entered at once after the flag is cleared.
RECURSIVE DirectProcessMoveQueue(_)

\* The finally block, with the direct call.
DirectFinally(p) ==
  IF p.isInterrupted
  THEN DirectProcessMoveQueue([p EXCEPT !.isMoving = FALSE, !.isInterrupted = FALSE])
  ELSE [p EXCEPT !.isMoving = FALSE]

DirectWhileTest(p) ==
  IF Len(p.moveQueue) = 0 THEN DirectFinally(p)
  ELSE IF p.isInterrupted THEN DirectFinally(p)
  ELSE ExecuteMoveTo(p, Head(p.moveQueue))

DirectProcessMoveQueue(p) ==
  IF p.isMoving THEN p
  ELSE DirectWhileTest([p EXCEPT !.isMoving = TRUE, !.isInterrupted = FALSE])

DirectAfterExec(p, l) ==
  IF p.isInterrupted THEN DirectFinally(p)
  ELSE LET q == Shift(p.moveQueue)
           b == UpdateDestinationBadges(q)
           h == IF p.moveQueue = <<>> THEN [dest |-> NoCell, id |-> 0]
                ELSE Head(p.moveQueue)
           p1 == [p EXCEPT !.moveQueue = q,
                           !.badges = b.badges,
                           !.lastPop = [id |-> h.id, dest |-> h.dest,
                                        by |-> l.id, pos |-> p.pos,
                                        from |-> l.from, steps |-> l.steps]]
       IN  IF b.threw THEN DirectFinally(p1) ELSE DirectWhileTest(p1)

DirectMoveTo(p, e) ==
  LET q == Append(p.moveQueue, e)
      b == UpdateDestinationBadges(q)
      p1 == [p EXCEPT !.moveQueue = q, !.badges = b.badges]
  IN  IF b.threw THEN p1 ELSE DirectProcessMoveQueue(p1)

DirectMoveToPriority(p, e) ==
  LET b == UpdateDestinationBadges(<<e>>)
      p1 == [p EXCEPT !.isInterrupted = TRUE, !.moveQueue = <<e>>, !.badges = b.badges]
  IN  IF b.threw THEN p1
      ELSE IF ~p1.isMoving THEN DirectProcessMoveQueue(p1) ELSE p1

\* The twin is off.
NoTwin == [on |-> FALSE, raced |-> FALSE, p |-> [pos |-> NoCell, moveQueue |-> <<>>]]

\* The twin handles request number n; raced records that a request was
\* handled between the exit of an interrupted loop and its restart timer.
TwinRequest(kind, d, n) ==
  IF ~direct.on THEN direct
  ELSE [direct EXCEPT
          !.raced = @ \/ restartTimers > 0,
          !.p = IF kind = "moveTo"
                THEN DirectMoveTo([@ EXCEPT !.stepId = 0], [dest |-> d, id |-> n])
                ELSE IF kind = "moveToPriority"
                THEN DirectMoveToPriority([@ EXCEPT !.stepId = 0], [dest |-> d, id |-> n])
                ELSE PlayerStopAllMovement([@ EXCEPT !.stepId = 0])]

\* The step delay of the twin's loop k expires.
TwinSleepExpire(k) ==
  IF ~direct.on THEN direct
  ELSE IF k > Len(direct.p.loops) THEN direct
  ELSE IF direct.p.loops[k].pc # "sleep" THEN direct
  ELSE LET l == direct.p.loops[k] IN
       [direct EXCEPT !.p = ForStep([@ EXCEPT !.loops = RemoveAt(@, k)], l.path, l.i + 1,
                                    [dest |-> l.dest, id |-> l.id])]

\* The continuation of the twin's loop k.
TwinMicrotask(k) ==
  IF ~direct.on THEN direct
  ELSE IF k > Len(direct.p.loops) THEN direct
  ELSE IF direct.p.loops[k].pc # "await" THEN direct
  ELSE [direct EXCEPT !.p = DirectAfterExec([@ EXCEPT !.loops = RemoveAt(@, k)],
                                            direct.p.loops[k])]

\* ------------------------------------------------------ index.js: the tasks

\* The state of part_001 on a page that runs index.js.
NotLoaded ==
  /\ tiles = [c \in {} |-> "land"]
  /\ customer = NoCell
  /\ shipPlayer = NoCell
  /\ destQueue = <<>>
  /\ processing = FALSE
  /\ movementToken = 0
  /\ lastClicked = NoCell
  /\ spaceSeen = FALSE
  /\ procs = <<>>
  /\ waiters = <<>>
  /\ paintMode = FALSE
  /\ currentType = "land"
  /\ inputs = 0
  /\ finds = <<>>
  /\ shifts = <<>>

\* DOMContentLoaded: new Ship(..), new Player(0, 0), ship.initPlayer(player).
Init ==
  /\ script = "index.js"
  /\ NotLoaded
  /\ grid \in {GridOf(w) : w \in Layouts}
  /\ moveQueue = <<>>
  /\ isMoving = FALSE
  /\ isInterrupted = FALSE
  /\ pos = <<0, 0>>
  /\ placedCell = <<0, 0>>
  /\ entity = {<<0, 0>>}
  /\ badges = {}
  /\ loops = <<>>
  /\ restartTimers = 0
  /\ reqNo = 0
  /\ last = "init"
  /\ lastReq = NoReq
  /\ stepId = 0
  /\ lastPop = NoPop
  /\ noPreempt = TRUE
  /\ lastPrio = 0
  /\ direct = NoTwin
  /\ ship = NoClicks

\* A continuation of an `await` on a settled promise is pending.
MicrotaskPending == \E k \in 1 .. Len(loops) : loops[k].pc = "await"

InFlight == \E k \in 1 .. Len(loops) : loops[k].pc = "sleep"

\* A request arrives (a task of the event loop): history only.
Requested(kind, d, max) ==
  /\ script = "index.js"
  /\ reqNo < max
  /\ ~MicrotaskPending
  /\ reqNo' = reqNo + 1
  /\ last' = kind
  /\ lastReq' = [kind |-> kind, dest |-> d, id |-> reqNo + 1, pos |-> pos,
                 inflight |-> InFlight]
  /\ noPreempt' = (noPreempt /\ kind = "moveTo")
  /\ lastPrio' = IF kind = "moveToPriority" THEN reqNo + 1 ELSE lastPrio
  /\ direct' = TwinRequest(kind, d, reqNo + 1)
  /\ grid' = grid

\* A request made by a call of the Player's method, not through a click
\* handler of the grid.
Request(kind, d, max) ==
  /\ Requested(kind, d, max)
  /\ ship' = ship

\* interactInput(cell, x, y, 'single'): player.moveTo(cell, x, y).
MoveTo(d) ==
  /\ Request("moveTo", d, MaxReq)
  /\ \E np \in {PlayerMoveTo([Player EXCEPT !.stepId = 0], [dest |-> d, id |-> reqNo + 1])} : Install(np)

\* interactInput(cell, x, y, 'double'): player.moveToPriority(cell, x, y).
MoveToPriority(d) ==
  /\ Request("moveToPriority", d, MaxReq)
  /\ \E np \in {PlayerMoveToPriority([Player EXCEPT !.stepId = 0], [dest |-> d, id |-> reqNo + 1])} : Install(np)

\* keydown Space: player.stopAllMovement().
StopAllMovement ==
  /\ Request("stopAllMovement", NoCell, MaxReq)
  /\ \E np \in {PlayerStopAllMovement([Player EXCEPT !.stepId = 0])} : Install(np)

\* The step delay of loop k expires: _executeMoveTo goes on with i++.
SleepExpire(k) ==
  /\ ~MicrotaskPending
  /\ loops[k].pc = "sleep"
  /\ LET l == loops[k] IN
       \E np \in {ForStep([Player EXCEPT !.loops = RemoveAt(@, k)], l.path, l.i + 1,
                            [dest |-> l.dest, id |-> l.id])} : Install(np)
  /\ last' = "sleepExpire"
  /\ direct' = TwinSleepExpire(k)
  /\ UNCHANGED <<grid, reqNo, lastReq, noPreempt, lastPrio, ship>>

\* The continuation of `await this._executeMoveTo(...)` of loop k.
Microtask(k) ==
  /\ loops[k].pc = "await"
  /\ \E np \in {AfterExec([Player EXCEPT !.loops = RemoveAt(@, k)], loops[k])} : Install(np)
  /\ last' = "microtask"
  /\ direct' = TwinMicrotask(k)
  /\ UNCHANGED <<grid, reqNo, lastReq, noPreempt, lastPrio, ship>>

\* A restart timer of the finally block fires.
RestartFire ==
  /\ ~MicrotaskPending
  /\ restartTimers > 0
  /\ \E np \in {ProcessMoveQueue([Player EXCEPT !.restartTimers = @ - 1])} : Install(np)
  /\ last' = "restart"
  /\ UNCHANGED <<grid, reqNo, lastReq, noPreempt, lastPrio, direct, ship>>

Next ==
  \/ \E d \in Dests : MoveTo(d)
  \/ \E d \in Dests : MoveToPriority(d)
  \/ StopAllMovement
  \/ \E k \in 1 .. Len(loops) : SleepExpire(k)
  \/ \E k \in 1 .. Len(loops) : Microtask(k)
  \/ RestartFire

Spec == Init /\ [][Next]_vars

\* Runs whose requests are all moveTo (no preemption, no stop).
Enqueue(d) ==
  /\ Request("moveTo", d, MaxEnq)
  /\ \E np \in {PlayerMoveTo([Player EXCEPT !.stepId = 0], [dest |-> d, id |-> reqNo + 1])} : Install(np)

NextEnqueue ==
  \/ \E d \in Dests : Enqueue(d)
  \/ \E k \in 1 .. Len(loops) : SleepExpire(k)
  \/ \E k \in 1 .. Len(loops) : Microtask(k)

SpecEnqueue == Init /\ [][NextEnqueue]_vars

\* Runs of moveTo requests to cells of the grid.
TourDests == { <<0, 0>>, <<1, 1>>, <<2, 0>>, <<2, 2>>, <<0, 2>> }

NextTour ==
  \/ \E d \in TourDests : Enqueue(d)
  \/ \E k \in 1 .. Len(loops) : SleepExpire(k)
  \/ \E k \in 1 .. Len(loops) : Microtask(k)

SpecTour == Init /\ [][NextTour]_vars

\* Runs on the open grid from any start cell, with moveTo to any cell.
InitWalk ==
  /\ script = "index.js"
  /\ NotLoaded
  /\ grid = GridOf({})
  /\ moveQueue = <<>>
  /\ isMoving = FALSE
  /\ isInterrupted = FALSE
  /\ pos \in Cells
  /\ placedCell = pos
  /\ entity = {pos}
  /\ badges = {}
  /\ loops = <<>>
  /\ restartTimers = 0
  /\ reqNo = 0
  /\ last = "init"
  /\ lastReq = NoReq
  /\ stepId = 0
  /\ lastPop = NoPop
  /\ noPreempt = TRUE
  /\ lastPrio = 0
  /\ direct = NoTwin
  /\ ship = NoClicks

Walk(d) ==
  /\ Request("moveTo", d, MaxWalk)
  /\ \E np \in {PlayerMoveTo([Player EXCEPT !.stepId = 0], [dest |-> d, id |-> reqNo + 1])} : Install(np)

NextWalk ==
  \/ \E d \in Cells : Walk(d)
  \/ \E k \in 1 .. Len(loops) : SleepExpire(k)
  \/ \E k \in 1 .. Len(loops) : Microtask(k)

SpecWalk == InitWalk /\ [][NextWalk]_vars

\* Cells that carry a wall in some grid of the runs below.
WallArea == { <<1, 0>>, <<0, 1>>, <<1, 1>>, <<2, 1>>, <<1, 2>>, <<2, 2>> }

\* Runs on every grid whose walls lie in WallArea, from any land cell, with
\* moveTo to any cell.
InitGrids ==
  /\ script = "index.js"
  /\ NotLoaded
  /\ grid \in {GridOf(w) : w \in SUBSET WallArea}
  /\ moveQueue = <<>>
  /\ isMoving = FALSE
  /\ isInterrupted = FALSE
  /\ pos \in {c \in Cells : grid[c] = "land"}
  /\ placedCell = pos
  /\ entity = {pos}
  /\ badges = {}
  /\ loops = <<>>
  /\ restartTimers = 0
  /\ reqNo = 0
  /\ last = "init"
  /\ lastReq = NoReq
  /\ stepId = 0
  /\ lastPop = NoPop
  /\ noPreempt = TRUE
  /\ lastPrio = 0
  /\ direct = NoTwin
  /\ ship = NoClicks

\* The one moveTo of such a run.
WalkOnce(d) ==
  /\ Request("moveTo", d, 1)
  /\ \E np \in {PlayerMoveTo([Player EXCEPT !.stepId = 0], [dest |-> d, id |-> reqNo + 1])} : Install(np)

NextGrids ==
  \/ \E d \in Cells : WalkOnce(d)
  \/ \E k \in 1 .. Len(loops) : SleepExpire(k)
  \/ \E k \in 1 .. Len(loops) : Microtask(k)

SpecGrids == InitGrids /\ [][NextGrids]_vars

\* ------------------------------------------------ part_001: grid and findPath

Rows == H
Cols == W

Tiles == (0 .. Rows - 1) \X (0 .. Cols - 1)

\* Non-land tile sets of the grids the model is run on (painted before the run).
Painted == { {}, { <<1, 0>>, <<1, 1>> } }

TilesOf(water) == [c \in Tiles |-> IF c \in water THEN "water" ELSE "land"]

\* Tiles the clicks are drawn from; <<0, Cols - 1>> holds the customer.
ClickTiles == { <<0, 0>>, <<1, 1>>, <<2, 0>>, <<0, Cols - 1>> }

inBounds(c) == c[1] >= 0 /\ c[2] >= 0 /\ c[1] < Rows /\ c[2] < Cols

\* className === 'land' && !hasCustomer
Walkable(t, cust, c) == t[c] = "land" /\ c # cust

Neighbors(c) == << <<c[1] - 1, c[2]>>, <<c[1] + 1, c[2]>>,
                   <<c[1], c[2] - 1>>, <<c[1], c[2] + 1>> >>

\* The path keys pushed from cur back to the start through prev.
RECURSIVE PathKeys(_, _, _)
PathKeys(prev, startKey, cur) ==
  IF cur = startKey \/ prev[cur] = NoCell THEN <<cur>>
  ELSE <<cur>> \o PathKeys(prev, startKey, prev[cur])

\* Variant for C14: the neighbour is put at the front of the queue (a stack).
RECURSIVE PushNeighbors_Front(_, _, _, _, _)
PushNeighbors_Front(t, cust, cur, k, st) ==
  IF k > Len(Neighbors(cur)) THEN st
  ELSE LET n == Neighbors(cur)[k] IN
       IF ~inBounds(n) \/ n \in st.visited \/ ~Walkable(t, cust, n)
       THEN PushNeighbors_Front(t, cust, cur, k + 1, st)
       ELSE Only({PushNeighbors_Front(t, cust, cur, k + 1, v) :
                    v \in {[st EXCEPT !.queue = <<n>> \o @,
                                      !.visited = @ \cup {n},
                                      !.prev = [@ EXCEPT ![n] = cur]]}})

\* Variant for C16: neighbours are entered whatever their class and occupant.
RECURSIVE PushNeighbors_NoWalkCheck(_, _, _, _, _)
PushNeighbors_NoWalkCheck(t, cust, cur, k, st) ==
  IF k > Len(Neighbors(cur)) THEN st
  ELSE LET n == Neighbors(cur)[k] IN
       IF ~inBounds(n) \/ n \in st.visited
       THEN PushNeighbors_NoWalkCheck(t, cust, cur, k + 1, st)
       ELSE Only({PushNeighbors_NoWalkCheck(t, cust, cur, k + 1, v) :
                    v \in {[st EXCEPT !.queue = Append(@, n),
                                      !.visited = @ \cup {n},
                                      !.prev = [@ EXCEPT ![n] = cur]]}})

\* The neighbour loop of findPath for tile cur, from neighbour k on.
RECURSIVE PushNeighbors(_, _, _, _, _)
PushNeighbors(t, cust, cur, k, st) ==
  IF k > Len(Neighbors(cur)) THEN st
  ELSE LET n == Neighbors(cur)[k] IN
       IF ~inBounds(n) \/ n \in st.visited \/ ~Walkable(t, cust, n)
       THEN PushNeighbors(t, cust, cur, k + 1, st)
       ELSE Only({PushNeighbors(t, cust, cur, k + 1, v) :
                    v \in {[st EXCEPT !.queue = Append(@, n),
                                      !.visited = @ \cup {n},
                                      !.prev = [@ EXCEPT ![n] = cur]]}})

\* Variant for C13: no best candidate is returned when the queue runs out.
RECURSIVE FindLoop_NoFallback(_, _, _, _)
FindLoop_NoFallback(t, cust, goal, st) ==
  IF st.queue = <<>> THEN [end |-> NoCell, prev |-> st.prev]
  ELSE LET cur  == Head(st.queue)
           dist == Manhattan(cur, goal)
           here == Walkable(t, cust, cur)
       IN  IF dist = 1 /\ here THEN [end |-> cur, prev |-> st.prev]
           ELSE Only({FindLoop_NoFallback(t, cust, goal, v) :
                        v \in {PushNeighbors(t, cust, cur, 1, w) :
                          w \in {[st EXCEPT !.queue = Tail(@)]}}})

\* Variant for C15: the best candidate is the first walkable tile dequeued.
RECURSIVE FindLoop_FirstBest(_, _, _, _)
FindLoop_FirstBest(t, cust, goal, st) ==
  IF st.queue = <<>> THEN [end |-> st.best.key, prev |-> st.prev]
  ELSE LET cur  == Head(st.queue)
           dist == Manhattan(cur, goal)
           here == Walkable(t, cust, cur)
       IN  IF dist = 1 /\ here THEN [end |-> cur, prev |-> st.prev]
           ELSE Only({FindLoop_FirstBest(t, cust, goal, v) :
                        v \in {PushNeighbors(t, cust, cur, 1, w) :
                          w \in {[st EXCEPT
                                    !.queue = Tail(@),
                                    !.best = IF here /\ @.key = NoCell
                                             THEN [key |-> cur, dist |-> dist]
                                             ELSE @]}}})

\* The while loop of findPath: the tile the returned path ends on, NoCell for
\* none, together with prev.
RECURSIVE FindLoop(_, _, _, _)
FindLoop(t, cust, goal, st) ==
  IF st.queue = <<>> THEN [end |-> st.best.key, prev |-> st.prev]
  ELSE LET cur  == Head(st.queue)
           dist == Manhattan(cur, goal)
           here == Walkable(t, cust, cur)
       IN  IF dist = 1 /\ here THEN [end |-> cur, prev |-> st.prev]
           ELSE Only({FindLoop(t, cust, goal, v) :
                        v \in {PushNeighbors(t, cust, cur, 1, w) :
                          w \in {[st EXCEPT
                                    !.queue = Tail(@),
                                    !.best = IF here /\ (@.key = NoCell \/ dist < @.dist)
                                             THEN [key |-> cur, dist |-> dist]
                                             ELSE @]}}})

\* findPath(start, goal): the coordinates from start to the tile the search
\* settles on, or <<>> for null.
FindPath(t, cust, start, goal) ==
  Only({IF r.end = NoCell THEN <<>> ELSE Reverse(PathKeys(r.prev, start, r.end)) :
          r \in {FindLoop(t, cust, goal,
                          [queue   |-> <<start>>,
                           visited |-> {start},
                           prev    |-> [c \in Tiles |-> NoCell],
                           best    |-> [key |-> NoCell, dist |-> 0]])}})

\* ------------------------------------------------- part_001: the queue loop

\* The closure state of setupTileClickHandlerWithQueue, and the player, as a
\* record.
\* finds and shifts start empty in every task.
Queue ==
  [destQueue |-> destQueue, processing |-> processing,
   movementToken |-> movementToken, shipPlayer |-> shipPlayer,
   lastClicked |-> lastClicked, procs |-> procs, waiters |-> waiters,
   finds |-> <<>>, shifts |-> <<>>]

InstallQueue(q) ==
  /\ destQueue' = q.destQueue
  /\ processing' = q.processing
  /\ movementToken' = q.movementToken
  /\ shipPlayer' = q.shipPlayer
  /\ lastClicked' = q.lastClicked
  /\ procs' = q.procs
  /\ waiters' = q.waiters
  /\ finds' = q.finds
  /\ shifts' = q.shifts
  /\ UNCHANGED <<script, indexvars>>

\* followPath has returned: processQueue goes on in a continuation.
FollowReturned(q, goal) ==
  [q EXCEPT !.procs = Append(@, [pc |-> "await", path |-> <<>>, i |-> 0,
                                 token |-> 0, goal |-> goal])]

\* Math.max(0, Math.min(n - 1, v))
Clamp(v, n) == IF v < 0 THEN 0 ELSE IF v > n - 1 THEN n - 1 ELSE v

\* Variant for C23: the coordinates are stored as given.
InitPlayer_NoClamp(q, c) == [q EXCEPT !.shipPlayer = c]

\* Ship.initPlayer(row, col), also called as movePlayerTo: hasPlayer is
\* cleared on the previous cell and set on the clamped one.
InitPlayer(q, c) ==
  [q EXCEPT !.shipPlayer = <<Clamp(c[1], Rows), Clamp(c[2], Cols)>>]

\* The for loop of followPath at index i (0-based), entered from its test.
FollowStep(q, path, i, token, goal) ==
  IF i >= Len(path) THEN FollowReturned(q, goal)
  ELSE IF token # q.movementToken THEN FollowReturned(q, goal)
  ELSE [InitPlayer(q, path[i + 1]) EXCEPT
          !.procs = Append(@, [pc |-> "sleep", path |-> path, i |-> i,
                               token |-> token, goal |-> goal])]

\* followPath(path)
FollowPath(q, path, goal) ==
  IF path = <<>> THEN FollowReturned(q, goal)
  ELSE FollowStep(q, path, IF path[1] = q.shipPlayer THEN 1 ELSE 0,
                  q.movementToken, goal)

\* destQueue.shift() in processQueue, with the history of it: the entry
\* removed (NoCell when the queue was empty), the player's tile, and the branch.
Shifted(q, how) ==
  [q EXCEPT !.destQueue = Shift(@),
            !.shifts = Append(@, [goal |-> IF q.destQueue = <<>> THEN NoCell
                                           ELSE Head(q.destQueue),
                                  pos |-> q.shipPlayer, how |-> how])]

\* The history of `findPath(start, goal)` returning path.
Found(q, goal, path) ==
  [q EXCEPT !.finds = Append(@, [start |-> q.shipPlayer, goal |-> goal,
                                 path |-> path])]

\* Variant for C21: the loop does not compare the head with the player's tile.
RECURSIVE QueueWhile_NoSameCheck(_, _, _)
QueueWhile_NoSameCheck(t, cust, q) ==
  IF q.destQueue = <<>> THEN [q EXCEPT !.processing = FALSE]
  ELSE LET goal == Head(q.destQueue) IN
       Only({IF path = <<>>
             THEN Only({QueueWhile_NoSameCheck(t, cust, v) :
                          v \in {Shifted(Found(q, goal, path), "no path")}})
             ELSE FollowPath(Found(q, goal, path), path, goal) :
               path \in {FindPath(t, cust, q.shipPlayer, goal)}})

\* The while loop of processQueue, entered from its test.
RECURSIVE QueueWhile(_, _, _)
QueueWhile(t, cust, q) ==
  IF q.destQueue = <<>> THEN [q EXCEPT !.processing = FALSE]
  ELSE LET goal == Head(q.destQueue) IN
       IF q.shipPlayer = goal
       THEN Only({QueueWhile(t, cust, v) :
                    v \in {Shifted(q, "reached immediately")}})
       ELSE Only({IF path = <<>>
                  THEN Only({QueueWhile(t, cust, v) :
                               v \in {Shifted(Found(q, goal, path), "no path")}})
                  ELSE FollowPath(Found(q, goal, path), path, goal) :
                    path \in {FindPath(t, cust, q.shipPlayer, goal)}})

\* processQueue after `await followPath(path)`: pop the queue and loop.
AfterFollow(t, cust, q) ==
  QueueWhile(t, cust, Shifted(q, "followed"))

\* processQueue()
ProcessQueue(t, cust, q) ==
  IF q.processing THEN q
  ELSE QueueWhile(t, cust, [q EXCEPT !.processing = TRUE])

\* Variant for C34: clearQueue returns without waiting for the loop.
ClearQueue_NoWait(q, then) ==
  [q EXCEPT !.movementToken = @ + 1,
            !.destQueue = <<>>,
            !.waiters = Append(@, [pc |-> "await",
                                   then |-> then.kind, dest |-> then.dest])]

\* Variant for C28: clearQueue leaves movementToken as it is.
ClearQueue_NoBump(q, then) ==
  [q EXCEPT !.destQueue = <<>>,
            !.waiters = Append(@, [pc |-> IF q.processing THEN "sleep" ELSE "await",
                                   then |-> then.kind, dest |-> then.dest])]

\* clearQueue() up to its first await or its return; then names what the
\* handler does once the promise resolves.
ClearQueue(q, then) ==
  [q EXCEPT !.movementToken = @ + 1,
            !.destQueue = <<>>,
            !.waiters = Append(@, [pc |-> IF q.processing THEN "sleep" ELSE "await",
                                   then |-> then.kind, dest |-> then.dest])]

\* Variant for C22: every click on a land tile is enqueued.
OnTileClick_NoDedupe(t, cust, q, c) ==
  IF t[c] # "land" THEN q
  ELSE ProcessQueue(t, cust, [q EXCEPT !.lastClicked = c,
                                       !.destQueue = Append(@, c)])

\* shipObj.onTileClick(row, col) with paintMode off.
OnTileClick(t, cust, q, c) ==
  IF t[c] # "land" THEN q
  ELSE IF \E k \in 1 .. Len(q.destQueue) : q.destQueue[k] = c
       THEN [q EXCEPT !.lastClicked = c]
  ELSE IF q.shipPlayer = c THEN [q EXCEPT !.lastClicked = c]
  ELSE ProcessQueue(t, cust, [q EXCEPT !.lastClicked = c,
                                       !.destQueue = Append(@, c)])

\* The dblclick handler up to `await clearQueue()`.
OnDblClick(t, q, c) ==
  IF t[c] # "land" THEN q
  ELSE ClearQueue([q EXCEPT !.lastClicked = c], [kind |-> "enqueue", dest |-> c])

\* The handler of waiter w after `await clearQueue()`.
AfterClear(t, cust, q, w) ==
  IF w.then = "enqueue"
  THEN ProcessQueue(t, cust, [q EXCEPT !.destQueue = Append(@, w.dest)])
  ELSE IF w.then = "enqueueLast" /\ q.lastClicked # NoCell
  THEN ProcessQueue(t, cust, [q EXCEPT !.destQueue = Append(@, q.lastClicked)])
  ELSE q

\* ------------------------------------------------------ part_001: the tasks

\* DOMContentLoaded: createGrid puts the player on (0,0) and the customer on
\* (0, cols - 1).
InitQueue ==
  /\ script = "part_001"
  /\ tiles \in {TilesOf(w) : w \in Painted}
  /\ customer = <<0, Cols - 1>>
  /\ shipPlayer = <<0, 0>>
  /\ destQueue = <<>>
  /\ processing = FALSE
  /\ movementToken = 0
  /\ lastClicked = NoCell
  /\ spaceSeen = FALSE
  /\ procs = <<>>
  /\ waiters = <<>>
  /\ paintMode = FALSE
  /\ currentType = "land"
  /\ inputs = 0
  /\ finds = <<>>
  /\ shifts = <<>>
  /\ grid = GridOf({})
  /\ moveQueue = <<>>
  /\ isMoving = FALSE
  /\ isInterrupted = FALSE
  /\ pos = NoCell
  /\ placedCell = NoCell
  /\ entity = {}
  /\ badges = {}
  /\ loops = <<>>
  /\ restartTimers = 0
  /\ reqNo = 0
  /\ last = "init"
  /\ lastReq = NoReq
  /\ stepId = 0
  /\ lastPop = NoPop
  /\ noPreempt = TRUE
  /\ lastPrio = 0
  /\ direct = NoTwin
  /\ ship = NoClicks

\* A continuation of an `await` on a settled promise is pending.
ContinuationPending ==
  \/ \E k \in 1 .. Len(procs) : procs[k].pc = "await"
  \/ \E k \in 1 .. Len(waiters) : waiters[k].pc = "await"

\* An input event arrives (a task of the event loop).
Input ==
  /\ script = "part_001"
  /\ inputs < MaxInput
  /\ ~ContinuationPending
  /\ inputs' = inputs + 1

\* click on tile c: shipObj.onTileClick(row, col), which paints the tile in
\* paint mode (setTileState keeps the tile's hasPlayer and hasCustomer).
TileClick(c) ==
  /\ Input
  /\ IF paintMode
     THEN /\ tiles' = [tiles EXCEPT ![c] = currentType]
          /\ InstallQueue(Queue)
     ELSE /\ tiles' = tiles
          /\ \E nq \in {OnTileClick(tiles, customer, Queue, c)} : InstallQueue(nq)
  /\ UNCHANGED <<customer, paintMode, currentType, spaceSeen>>

\* dblclick on tile c (the browser delivers it after the clicks on c)
TileDblClick(c) ==
  /\ Input
  /\ tiles[c] = "land" => lastClicked = c
  /\ \E nq \in {OnDblClick(tiles, Queue, c)} : InstallQueue(nq)
  /\ UNCHANGED <<shipvars, spaceSeen>>

\* keydown Space more than DOUBLE_MS after the previous one
SpacePress ==
  /\ Input
  /\ \E nq \in {ClearQueue(Queue, [kind |-> "none", dest |-> NoCell])} : InstallQueue(nq)
  /\ spaceSeen' = TRUE
  /\ UNCHANGED shipvars

\* keydown Space within DOUBLE_MS of the previous one
SpaceDoublePress ==
  /\ Input
  /\ spaceSeen
  /\ \E nq \in {ClearQueue(Queue, [kind |-> "enqueueLast", dest |-> NoCell])} : InstallQueue(nq)
  /\ spaceSeen' = TRUE
  /\ UNCHANGED shipvars

\* The step delay of processQueue invocation k expires in followPath.
StepExpire(k) ==
  /\ ~ContinuationPending
  /\ procs[k].pc = "sleep"
  /\ LET l == procs[k]
         q == [Queue EXCEPT !.procs = RemoveAt(@, k)]
     IN  \E nq \in {IF l.token # movementToken THEN FollowReturned(q, l.goal)
                    ELSE FollowStep(q, l.path, l.i + 1, l.token, l.goal)} :
           InstallQueue(nq)
  /\ UNCHANGED <<shipvars, spaceSeen, inputs>>

\* The continuation of `await followPath(path)` of invocation k.
QueueContinue(k) ==
  /\ procs[k].pc = "await"
  /\ \E nq \in {AfterFollow(tiles, customer, [Queue EXCEPT !.procs = RemoveAt(@, k)])} :
       InstallQueue(nq)
  /\ UNCHANGED <<shipvars, spaceSeen, inputs>>

\* The sleep(20) of waiter k in clearQueue expires.
WaitExpire(k) ==
  /\ ~ContinuationPending
  /\ waiters[k].pc = "sleep"
  /\ \E nq \in {IF processing THEN Queue
                ELSE [Queue EXCEPT !.waiters[k].pc = "await"]} : InstallQueue(nq)
  /\ UNCHANGED <<shipvars, spaceSeen, inputs>>

\* The continuation of `await clearQueue()` of waiter k.
ClearContinue(k) ==
  /\ waiters[k].pc = "await"
  /\ \E nq \in {AfterClear(tiles, customer, [Queue EXCEPT !.waiters = RemoveAt(@, k)],
                           waiters[k])} : InstallQueue(nq)
  /\ UNCHANGED <<shipvars, spaceSeen, inputs>>

NextQueue ==
  \/ \E c \in ClickTiles : TileClick(c)
  \/ \E c \in ClickTiles : TileDblClick(c)
  \/ SpacePress
  \/ SpaceDoublePress
  \/ \E k \in 1 .. Len(procs) : StepExpire(k)
  \/ \E k \in 1 .. Len(procs) : QueueContinue(k)
  \/ \E k \in 1 .. Len(waiters) : WaitExpire(k)
  \/ \E k \in 1 .. Len(waiters) : ClearContinue(k)

\* The page runs either script.
InitLoops == Init \/ InitQueue

NextLoops == Next \/ NextQueue

SpecLoops == InitLoops /\ [][NextLoops]_vars

\* The requests the page makes: interactInput is called by the click handlers
\* of the grid's cells, so every requested coordinate is a cell of the grid.
NextClicks ==
  \/ \E d \in TourDests : MoveTo(d)
  \/ \E d \in TourDests : MoveToPriority(d)
  \/ StopAllMovement
  \/ \E k \in 1 .. Len(loops) : SleepExpire(k)
  \/ \E k \in 1 .. Len(loops) : Microtask(k)
  \/ RestartFire

SpecClicks == Init /\ [][NextClicks]_vars

\* Either script, driven by the page.
NextPages == NextClicks \/ NextQueue

SpecPages == InitLoops /\ [][NextPages]_vars

\* ----------------------------------- part_001: one click on an edited ship

\* The tiles the paint tool has turned to water, and the tiles the customer
\* has been dropped on, before the click.
PaintArea == { <<1, 0>>, <<0, 1>>, <<1, 1>>, <<2, 1>>, <<1, 2>>, <<2, 2>> }

CustomerTiles == { <<0, Cols - 1>>, <<1, 1>>, <<2, 0>> }

\* A ship after painting and dragging, the queue idle: the player stands
\* where earlier clicks have led it, on a tile that may have been painted or
\* given to the customer since.
InitFind ==
  /\ script = "part_001"
  /\ tiles \in {TilesOf(w) : w \in SUBSET PaintArea}
  /\ customer \in CustomerTiles
  /\ shipPlayer \in Tiles
  /\ destQueue = <<>>
  /\ processing = FALSE
  /\ movementToken = 0
  /\ lastClicked = NoCell
  /\ spaceSeen = FALSE
  /\ procs = <<>>
  /\ waiters = <<>>
  /\ paintMode = FALSE
  /\ currentType = "land"
  /\ inputs = 0
  /\ finds = <<>>
  /\ shifts = <<>>
  /\ grid = GridOf({})
  /\ moveQueue = <<>>
  /\ isMoving = FALSE
  /\ isInterrupted = FALSE
  /\ pos = NoCell
  /\ placedCell = NoCell
  /\ entity = {}
  /\ badges = {}
  /\ loops = <<>>
  /\ restartTimers = 0
  /\ reqNo = 0
  /\ last = "init"
  /\ lastReq = NoReq
  /\ stepId = 0
  /\ lastPop = NoPop
  /\ noPreempt = TRUE
  /\ lastPrio = 0
  /\ direct = NoTwin
  /\ ship = NoClicks

\* The one click, on any tile.
Probe(c) ==
  /\ inputs = 0
  /\ TileClick(c)

NextFind ==
  \/ \E c \in Tiles : Probe(c)
  \/ \E k \in 1 .. Len(procs) : StepExpire(k)
  \/ \E k \in 1 .. Len(procs) : QueueContinue(k)

SpecFind == InitFind /\ [][NextFind]_vars

\* ------------------------------- part_001: clicks, the paint tool, the drag

PaintTypes == { "land", "water" }

\* The tiles clicked, and the tiles the customer is dropped on.
EditTiles == { <<0, 0>>, <<1, 1>>, <<2, 0>>, <<2, 2>> }

DropTiles == { <<0, 0>>, <<1, 1>>, <<2, 0>> }

\* click on the Toggle button
TogglePaint ==
  /\ Input
  /\ paintMode' = ~paintMode
  /\ InstallQueue(Queue)
  /\ UNCHANGED <<tiles, customer, currentType, spaceSeen>>

\* click on the button of tile type ty
SelectType(ty) ==
  /\ Input
  /\ currentType' = ty
  /\ InstallQueue(Queue)
  /\ UNCHANGED <<tiles, customer, paintMode, spaceSeen>>

\* drop of the dragged customer on tile c: this.initCustomer(row, col)
DropCustomer(c) ==
  /\ Input
  /\ customer' = c
  /\ InstallQueue(Queue)
  /\ UNCHANGED <<tiles, paintMode, currentType, spaceSeen>>

NextEdit ==
  \/ \E c \in EditTiles : TileClick(c)
  \/ TogglePaint
  \/ \E ty \in PaintTypes : SelectType(ty)
  \/ \E c \in DropTiles : DropCustomer(c)
  \/ \E k \in 1 .. Len(procs) : StepExpire(k)
  \/ \E k \in 1 .. Len(procs) : QueueContinue(k)

SpecEdit == InitQueue /\ [][NextEdit]_vars

\* ------------------------------------ part_001: the ship called by a script

\* Coordinates passed to window.ship.movePlayerTo: cells of the grid and
\* coordinates off each of its edges.
PlaceCells ==
  { <<1, 1>>, <<2, 0>>, <<-1, 0>>, <<Rows, 1>>, <<1, -2>>, <<0, Cols + 1>>,
    <<Rows + 1, Cols>>, <<-1, -1>> }

\* window.ship.movePlayerTo(row, col)
MovePlayerTo(c) ==
  /\ Input
  /\ InstallQueue(InitPlayer(Queue, c))
  /\ UNCHANGED <<shipvars, spaceSeen>>

NextPlace ==
  \/ \E c \in PlaceCells : MovePlayerTo(c)
  \/ \E c \in ClickTiles : TileClick(c)
  \/ \E k \in 1 .. Len(procs) : StepExpire(k)
  \/ \E k \in 1 .. Len(procs) : QueueContinue(k)

SpecPlace == InitQueue /\ [][NextPlace]_vars

\* The timers and continuations of the event loop always run in the end.
FairSpec ==
  /\ Spec
  /\ WF_vars(\E k \in 1 .. Len(loops) : SleepExpire(k))
  /\ WF_vars(\E k \in 1 .. Len(loops) : Microtask(k))
  /\ WF_vars(RestartFire)

\* --------------------------------------------------- vocabulary of the claims

\* The cells joined to the cells of S by 4-connected land tiles.
RECURSIVE LandClosure(_, _)
LandClosure(g, S) ==
  Only({IF T = S THEN S ELSE LandClosure(g, T) :
          T \in {S \cup {n \in Cells : g[n] = "land"
                                      /\ \E c \in S : Manhattan(c, n) = 1}}})

\* Destination b is a land tile of the grid that a walk over land from a reaches.
CanReach(g, a, b) == InBounds(b) /\ g[b] = "land" /\ b \in LandClosure(g, {a})

\* No task of the scheduler is pending: no loop, no continuation, no restart.
Quiescent == loops = <<>> /\ restartTimers = 0

LastEntry == [dest |-> lastReq.dest, id |-> lastReq.id]

\* ---------------------------------------------------------------------- C1

\* C1: with moveTo requests only, the entries leave the queue in the order of
\* their requests (the popped entries are requests 1..n and the queue holds
\* n+1..reqNo in order), a traversal in flight is the one of the head, so no
\* step is committed toward an entry before its predecessor was popped, and an
\* entry the agent can reach is popped with the agent standing on it.
C1_FIFO ==
  noPreempt =>
    /\ \A k \in 1 .. Len(moveQueue) : moveQueue[k].id = lastPop.id + k
    /\ lastPop.id + Len(moveQueue) = reqNo
    /\ \A k \in 1 .. Len(loops) :
         moveQueue # <<>> /\ loops[k].id = Head(moveQueue).id
    /\ stepId <= lastPop.id + 1
    /\ (lastPop # NoPop /\ CanReach(grid, lastPop.pos, lastPop.dest))
         => lastPop.pos = lastPop.dest

\* Two entries were popped with the agent on them, the third is being walked
\* to, and a request arrived while a traversal was in its step delay.
C1_Witness ==
  /\ noPreempt
  /\ lastPop.id = 2
  /\ lastPop.pos = lastPop.dest
  /\ lastPop.steps > 0
  /\ InFlight
  /\ lastReq.inflight
  /\ Len(moveQueue) = 2

\* ---------------------------------------------------------------------- C2

\* C2: right after moveToPriority(dest) the queue is exactly [dest], and no
\* step after the call is committed for an entry requested before it.
C2_PreemptReplaces ==
  /\ last = "moveToPriority" => moveQueue = <<LastEntry>>
  /\ (lastPrio > 0 /\ stepId # 0) => stepId >= lastPrio

\* The third request preempts a traversal in flight with two entries never
\* popped, and the agent has stepped toward the new destination.
C2_Witness ==
  /\ lastReq.kind = "moveToPriority"
  /\ lastReq.id = 3
  /\ lastReq.inflight
  /\ lastPop = NoPop
  /\ stepId = 3

\* ---------------------------------------------------------------------- C5

\* C5: the agent stands on the coordinate of the path in flight that the loop
\* is at; after a moveToPriority(D) made during a step delay every step is one
\* toward D, until one is taken the agent keeps the position of the call, and
\* the queue stays [D] until the loop that traversed D pops it.
C5_PreemptAtCheckpoint ==
  /\ \A k \in 1 .. Len(loops) :
       loops[k].pc = "sleep" => pos = loops[k].path[loops[k].i + 1]
  /\ (lastReq.kind = "moveToPriority" /\ lastReq.inflight) =>
       /\ stepId \in {0, lastReq.id}
       /\ stepId = 0 => pos = lastReq.pos
       /\ \/ moveQueue = <<LastEntry>>
          \/ moveQueue = <<>> /\ lastPop.id = lastReq.id /\ lastPop.by = lastReq.id

\* The preempted traversal has left the loop one step into its path: the agent
\* is where it was at the call, not on the new destination, and the restart is
\* pending with the queue [D].
C5_Witness ==
  /\ lastReq.kind = "moveToPriority"
  /\ lastReq.inflight
  /\ loops = <<>>
  /\ restartTimers = 1
  /\ moveQueue = <<LastEntry>>
  /\ pos = lastReq.pos
  /\ pos # <<0, 0>>
  /\ pos # lastReq.dest

\* ---------------------------------------------------------------------- C7

\* C7: a moveTo made during a step delay appends its entry and changes neither
\* _isInterrupted, _isMoving, the position nor the suspended traversal; and a
\* traversal in flight that was not interrupted is the one of the head of the
\* queue, on a path that ends at its destination.
C7_MoveToFrame ==
  [][(last' = "moveTo" /\ reqNo' = reqNo + 1 /\ InFlight) =>
       /\ moveQueue' = Append(moveQueue, [dest |-> lastReq'.dest, id |-> reqNo + 1])
       /\ isInterrupted' = isInterrupted
       /\ isMoving' = isMoving
       /\ pos' = pos
       /\ loops' = loops]_vars

C7_HeadInFlight ==
  \A k \in 1 .. Len(loops) :
    (loops[k].pc = "sleep" /\ ~isInterrupted) =>
      /\ moveQueue # <<>>
      /\ Head(moveQueue).id = loops[k].id
      /\ loops[k].path[Len(loops[k].path)] = Head(moveQueue).dest

C7_EnqueueDoesNotInterrupt == C7_MoveToFrame /\ []C7_HeadInFlight

\* A moveTo arrived during a step delay: two entries queued, the traversal of
\* the first still in flight and not interrupted.
C7_Witness ==
  /\ last = "moveTo"
  /\ lastReq.inflight
  /\ InFlight
  /\ ~isInterrupted
  /\ Len(moveQueue) = 2
  /\ Head(moveQueue).dest # moveQueue[2].dest

\* ---------------------------------------------------------------------- C4

\* C4: at most one invocation of the processing loop is past its reentrancy
\* guard, and the guard is set while it is: index.js has at most one suspended
\* _processMoveQueue and _isMoving is true with it, part_001 has at most one
\* suspended processQueue and processing is true with it.
C4_SingleLoop ==
  /\ Len(loops) <= 1
  /\ loops # <<>> => isMoving
  /\ Len(procs) <= 1
  /\ procs # <<>> => processing

\* The restart timer of an interrupted loop fired while the loop that a later
\* moveToPriority started was in its step delay: the call returned at the guard.
C4_Witness ==
  /\ last = "restart"
  /\ lastPrio > 0
  /\ Len(loops) = 1
  /\ InFlight
  /\ isMoving
  /\ restartTimers = 0

\* ---------------------------------------------------------------------- C3

\* C3: as long as stopAllMovement is the latest request the queue is empty, no
\* step was committed since the call and the agent is where it was at the call
\* (the committed step is kept); _isMoving is true only while the loop that was
\* in flight at the call has not left; once false it stays false; and it
\* becomes false.
C3_Safety ==
  lastReq.kind = "stopAllMovement" =>
    /\ moveQueue = <<>>
    /\ stepId = 0
    /\ pos = lastReq.pos
    /\ isMoving => (lastReq.inflight /\ loops # <<>>)

C3_Stays ==
  [][(lastReq.kind = "stopAllMovement" /\ lastReq' = lastReq /\ ~isMoving)
       => ~isMoving']_vars

C3_Live ==
  lastReq.kind = "stopAllMovement"
    ~> (lastReq.kind # "stopAllMovement" \/ (~isMoving /\ moveQueue = <<>>))

C3_StopAll == []C3_Safety /\ C3_Stays /\ C3_Live

\* A stop made during a step delay, away from the start: the loop has left, the
\* restart it scheduled has run, and the agent is idle where the stop found it.
C3_Witness ==
  /\ lastReq.kind = "stopAllMovement"
  /\ lastReq.inflight
  /\ last = "restart"
  /\ Quiescent
  /\ ~isMoving
  /\ moveQueue = <<>>
  /\ pos = lastReq.pos
  /\ pos # <<0, 0>>

\* ---------------------------------------------------------------------- C6

\* C6: when the n-th request is a moveToPriority(D) and D is a land tile the
\* agent can reach, then, unless a further request arrives, the agent comes to
\* stand on D with the queue empty and _isMoving false.
C6_PreemptServed ==
  \A n \in 1 .. MaxReq :
    (lastReq.id = n /\ lastReq.kind = "moveToPriority"
                    /\ CanReach(grid, pos, lastReq.dest))
      ~> \/ lastReq.id # n
         \/ pos = lastReq.dest /\ moveQueue = <<>> /\ ~isMoving

\* A moveToPriority made during a step delay toward another tile was served:
\* the agent stands on D, popped by D's own loop, and nothing is pending.
C6_Witness ==
  /\ lastReq.kind = "moveToPriority"
  /\ lastReq.inflight
  /\ lastReq.pos # lastReq.dest
  /\ pos = lastReq.dest
  /\ lastPop.id = lastReq.id
  /\ lastPop.steps > 0
  /\ moveQueue = <<>>
  /\ ~isMoving
  /\ Quiescent

\* ---------------------------------------------------------------------- C8

\* C8: a head destination whose path lookup fails never stalls the queue: the
\* scheduler does not come to rest (no loop, no continuation, no restart
\* pending) with such a head still queued in front of a destination the agent
\* can reach.
C8_UnreachableNeverStalls ==
  Quiescent =>
    ~ /\ Len(moveQueue) >= 2
      /\ Head(moveQueue).dest # pos
      /\ ~CanReach(grid, pos, Head(moveQueue).dest)
      /\ \E k \in 2 .. Len(moveQueue) : CanReach(grid, pos, moveQueue[k].dest)

\* ---------------------------------------------------------------------- C9

\* C9: a moveTo outside the grid is fatal to the call only: the scheduler does
\* not come to rest with the entry of that call still queued in front of a
\* destination that a later moveTo enqueued and the agent can reach.
C9_OutOfBoundsNotFatal ==
  Quiescent =>
    \A j, k \in 1 .. Len(moveQueue) :
      (j < k /\ ~InBounds(moveQueue[j].dest))
        => ~CanReach(grid, pos, moveQueue[k].dest)

\* --------------------------------------------------------------------- C10

\* C10: on the open grid the path of a traversal starts on the agent's cell,
\* ends on the goal and has Manhattan(start, goal) edges, and an entry is
\* popped after exactly that many steps with the agent on the goal.
C10_OpenGridShortest ==
  grid = GridOf({}) =>
    /\ \A k \in 1 .. Len(loops) :
         loops[k].pc = "sleep" =>
           LET l == loops[k] IN
             /\ Len(l.path) - 1 = Manhattan(l.from, l.dest)
             /\ l.path[1] = l.from
             /\ l.path[Len(l.path)] = l.dest
    /\ lastPop # NoPop =>
         /\ lastPop.steps = Manhattan(lastPop.from, lastPop.dest)
         /\ lastPop.pos = lastPop.dest

\* A walk from one corner of the grid to the opposite one was popped.
C10_Witness ==
  /\ lastPop.from = <<W - 1, H - 1>>
  /\ lastPop.dest = <<0, 0>>
  /\ lastPop.steps = W + H - 2
  /\ pos = <<0, 0>>

\* --------------------------------------------------------------------- C11

\* The number of the layer of b when the land around the cells of seen is
\* peeled layer by layer, front being layer k; -1 when b is in no layer.
RECURSIVE Layer(_, _, _, _, _)
Layer(g, seen, front, k, b) ==
  IF b \in front THEN k
  ELSE IF front = {} THEN -1
  ELSE Only({Layer(g, seen \cup next, next, k + 1, b) :
               next \in {{n \in Cells \ seen :
                           g[n] = "land" /\ \E c \in front : Manhattan(c, n) = 1}}})

\* The least number of edges of a 4-connected land path from a to b.
MinEdges(g, a, b) == Layer(g, {a}, {a}, 0, b)

\* C11: on any grid, a moveTo to a land goal reachable over land from the
\* agent's tile computes a path, and a computed path begins at the agent's
\* tile, ends at the goal, walks over 4-adjacent land tiles and has the least
\* possible number of edges; the entry is popped after that many steps with
\* the agent on the goal.
C11_ShortestWithWalls ==
  /\ \A k \in 1 .. Len(loops) :
       loops[k].pc = "sleep" =>
         LET l == loops[k] IN
           /\ l.path[1] = l.from
           /\ l.path[Len(l.path)] = l.dest
           /\ \A j \in 2 .. Len(l.path) :
                grid[l.path[j]] = "land" /\ Manhattan(l.path[j - 1], l.path[j]) = 1
           /\ Len(l.path) - 1 = MinEdges(grid, l.from, l.dest)
  /\ (last = "moveTo" /\ lastReq.dest # lastReq.pos
                      /\ CanReach(grid, lastReq.pos, lastReq.dest))
       => \E k \in 1 .. Len(loops) :
            /\ loops[k].pc = "sleep"
            /\ loops[k].from = lastReq.pos
            /\ loops[k].dest = lastReq.dest
  /\ (lastPop # NoPop /\ CanReach(grid, lastPop.from, lastPop.dest))
       => /\ lastPop.steps = MinEdges(grid, lastPop.from, lastPop.dest)
          /\ lastPop.pos = lastPop.dest

\* With (1,1) a wall the agent went from (1,0) to (1,2) by a detour: more
\* steps than the Manhattan distance.
C11_Witness ==
  /\ grid[<<1, 1>>] = "wall"
  /\ lastPop.from = <<1, 0>>
  /\ lastPop.dest = <<1, 2>>
  /\ lastPop.steps > Manhattan(lastPop.from, lastPop.dest)
  /\ pos = lastPop.dest

\* ------------------------------------------------------------ C12 .. C16

\* The tiles a walk from start can stand on: start, and every walkable tile
\* joined to it through walkable tiles.
RECURSIVE Flood(_, _, _)
Flood(t, cust, seen) ==
  Only({IF next = {} THEN seen ELSE Flood(t, cust, seen \cup next) :
          next \in {{n \in Tiles \ seen :
                       Walkable(t, cust, n) /\ \E c \in seen : Manhattan(c, n) = 1}}})

Reachable(t, cust, start) == Flood(t, cust, {start})

\* C12: for a walkable goal reachable from start and different from it,
\* findPath(start, goal) returns a sequence that begins with start and ends
\* with goal, and the player stands on goal when the followed destination is
\* popped.
C12_FindPathReachesGoal ==
  /\ \A k \in 1 .. Len(finds) :
       LET f == finds[k] IN
       (/\ f.start # f.goal
        /\ Walkable(tiles, customer, f.goal)
        /\ f.goal \in Reachable(tiles, customer, f.start))
       => /\ f.path # <<>>
          /\ f.path[1] = f.start
          /\ f.path[Len(f.path)] = f.goal
  /\ \A k \in 1 .. Len(shifts) :
       LET h == shifts[k] IN
       (/\ h.how = "followed"
        /\ Walkable(tiles, customer, h.goal)
        /\ h.goal \in Reachable(tiles, customer, h.pos))
       => h.pos = h.goal

\* The walkable tiles a walk from start can stand on.
Standable(t, cust, start) ==
  {n \in Reachable(t, cust, start) : Walkable(t, cust, n)}

\* The walkable tiles next to goal that a walk from start can stand on.
Approaches(t, cust, start, goal) ==
  {n \in Standable(t, cust, start) : Manhattan(n, goal) = 1}

\* The least number of steps of a walk from the tiles of front to b (front is
\* k steps from the start), -1 for none.
RECURSIVE Hops(_, _, _, _, _, _)
Hops(t, cust, seen, front, k, b) ==
  IF b \in front THEN k
  ELSE IF front = {} THEN -1
  ELSE Only({Hops(t, cust, seen \cup next, next, k + 1, b) :
               next \in {{n \in Tiles \ seen :
                            Walkable(t, cust, n) /\ \E c \in front : Manhattan(c, n) = 1}}})

MinSteps(t, cust, a, b) == Hops(t, cust, {a}, {a}, 0, b)

\* The case of C13: the goal cannot be reached and no walkable tile next to
\* it can.
NoWayNear(f) ==
  /\ f.goal \notin Reachable(tiles, customer, f.start)
  /\ Approaches(tiles, customer, f.start, f.goal) = {}

\* C13 as claimed: for a goal that is not reachable from start and has no
\* reachable adjacent tile, findPath returns null and the player stays where
\* it is.
C13_NullWhenUnreachable ==
  \A k \in 1 .. Len(finds) :
    NoWayNear(finds[k]) => finds[k].path = <<>> /\ shipPlayer = finds[k].start

\* C13 as amended: for such a goal findPath returns null exactly when no
\* walkable tile at all can be reached from start (start included); the
\* destination is then popped with the player where it was and no traversal
\* started.
C13_NullOnlyWhenStranded ==
  \A k \in 1 .. Len(finds) :
    LET f == finds[k] IN
    NoWayNear(f) =>
      /\ f.path = <<>> <=> Standable(tiles, customer, f.start) = {}
      /\ f.path = <<>> =>
           /\ shipPlayer = f.start
           /\ procs = <<>>
           /\ \E j \in 1 .. Len(shifts) :
                shifts[j] = [goal |-> f.goal, pos |-> f.start, how |-> "no path"]

C13_Witness ==
  \E k \in 1 .. Len(finds) :
    /\ NoWayNear(finds[k])
    /\ finds[k].path = <<>>
    /\ tiles[finds[k].goal] = "land"
    /\ shipPlayer = finds[k].start

\* C14: when the goal is not walkable and a walkable tile next to it can be
\* reached from start, findPath returns a path that begins with start, ends
\* on a reachable walkable tile at Manhattan distance 1 from the goal, and has
\* as few steps as any walk from start to a walkable tile next to the goal.
C14_Approach ==
  \A k \in 1 .. Len(finds) :
    LET f    == finds[k]
        near == Approaches(tiles, customer, f.start, f.goal)
    IN  (~Walkable(tiles, customer, f.goal) /\ near # {}) =>
          /\ f.path # <<>>
          /\ f.path[1] = f.start
          /\ f.path[Len(f.path)] \in near
          /\ \A n \in near :
               Len(f.path) - 1 <= MinSteps(tiles, customer, f.start, n)

C14_Witness ==
  \E k \in 1 .. Len(finds) :
    /\ finds[k].goal = customer
    /\ Len(finds[k].path) >= 4
    /\ Len(finds[k].path) - 1 > Manhattan(finds[k].start, finds[k].goal) - 1
    /\ Manhattan(finds[k].path[Len(finds[k].path)], customer) = 1

\* C15: when no walkable tile next to the goal can be reached from start,
\* findPath returns null if no walkable tile can be reached at all, and
\* otherwise a path from start to a reachable walkable tile whose Manhattan
\* distance to the goal is the least over the reachable walkable tiles.
C15_ClosestFallback ==
  \A k \in 1 .. Len(finds) :
    LET f     == finds[k]
        stand == Standable(tiles, customer, f.start)
    IN  Approaches(tiles, customer, f.start, f.goal) = {} =>
          IF stand = {} THEN f.path = <<>>
          ELSE /\ f.path # <<>>
               /\ f.path[1] = f.start
               /\ f.path[Len(f.path)] \in stand
               /\ \A n \in stand :
                    Manhattan(f.path[Len(f.path)], f.goal) <= Manhattan(n, f.goal)

C15_Witness ==
  \E k \in 1 .. Len(finds) :
    LET f == finds[k] IN
    /\ Approaches(tiles, customer, f.start, f.goal) = {}
    /\ Len(f.path) >= 3
    /\ Manhattan(f.path[Len(f.path)], f.goal) = 2
    /\ Manhattan(f.start, f.goal) > 2

\* C16 as claimed: every coordinate of a returned path except possibly the
\* last is walkable at the time of the call, and consecutive coordinates are
\* 4-adjacent.
C16_AllButLastWalkable ==
  \A k \in 1 .. Len(finds) :
    LET path == finds[k].path IN
    /\ \A i \in 1 .. Len(path) - 1 : Walkable(tiles, customer, path[i])
    /\ \A i \in 1 .. Len(path) - 1 : Manhattan(path[i], path[i + 1]) = 1

\* C16 as amended: a returned path begins with the start tile, every
\* coordinate after the first is walkable at the time of the call (the last
\* included), and consecutive coordinates are 4-adjacent.
C16_AllButStartWalkable ==
  \A k \in 1 .. Len(finds) :
    LET path == finds[k].path IN
    /\ path # <<>> => path[1] = finds[k].start
    /\ \A i \in 2 .. Len(path) : Walkable(tiles, customer, path[i])
    /\ \A i \in 1 .. Len(path) - 1 : Manhattan(path[i], path[i + 1]) = 1

C16_Witness ==
  \E k \in 1 .. Len(finds) :
    /\ Len(finds[k].path) >= 3
    /\ ~Walkable(tiles, customer, finds[k].start)
    /\ \E c \in Tiles : tiles[c] = "water" /\ Manhattan(c, finds[k].path[2]) = 1

\* ------------------------------------------------------------------ C17

\* C17: between any two events of index.js, step delays included, exactly
\* one grid cell has the player as its entity, that cell is _placedCell, it
\* lies in the grid, and its coordinates are (player.x, player.y).
C17_OneCellHoldsPlayer ==
  /\ Cardinality(entity) = 1
  /\ entity = {placedCell}
  /\ placedCell = pos
  /\ InBounds(pos)

\* In a step delay after the second step of a traversal.
C17_Witness ==
  \E k \in 1 .. Len(loops) :
    /\ loops[k].pc = "sleep"
    /\ loops[k].steps >= 2
    /\ pos = loops[k].path[loops[k].steps + 1]
    /\ pos # loops[k].from
    /\ entity = {pos}

\* ------------------------------------------------------------ C18, C19

\* C18: no tile has both hasPlayer and hasCustomer set.
C18_OneOccupantPerTile == shipPlayer # customer

\* C19: every committed step enters a tile that is walkable (class land, no
\* customer) at the moment of the commit.
C19_CheckThenCommit ==
  [][shipPlayer' # shipPlayer => Walkable(tiles', customer', shipPlayer')]_vars

\* ------------------------------------------------------------------ C20

\* The agent's position when the entry after the last popped one reached the
\* head of the queue.
HeadFrom == IF lastPop = NoPop THEN <<0, 0>> ELSE lastPop.pos

\* The state part of C20.
C20_Counts ==
  grid = GridOf({}) =>
    /\ \A k \in 1 .. Len(loops) :
         loops[k].pc = "sleep" =>
           LET l == loops[k] IN
             /\ l.id = lastPop.id + 1
             /\ l.from = HeadFrom
             /\ Len(l.path) - 1 = Manhattan(HeadFrom, l.dest)
             /\ l.steps >= 1 /\ l.steps <= Len(l.path) - 1
             /\ pos = l.path[l.steps + 1]
             /\ (l.id = 1 /\ l.dest = <<2, 0>>)
                  => l.path = << <<0, 0>>, <<1, 0>>, <<2, 0>> >>
             /\ (l.id = 2 /\ l.dest = <<2, 2>> /\ l.from = <<2, 0>>)
                  => l.path = << <<2, 0>>, <<2, 1>>, <<2, 2>> >>
    /\ lastPop # NoPop =>
         /\ lastPop.by = lastPop.id
         /\ lastPop.steps = Manhattan(lastPop.from, lastPop.dest)
         /\ lastPop.pos = lastPop.dest
    /\ lastPop.id + Len(moveQueue) = reqNo

\* C20: in a run of moveTo requests to cells of the all-land grid, the steps
\* committed for a destination are those of a path of Manhattan(from, dest)
\* edges from the position the agent had when the destination reached the
\* head, taken one coordinate at a time; every pop removes the next request in
\* order, once, after exactly that many steps; and from (0,0) with (2,0) then
\* (2,2) requested (the scenario of the spec on the 3x3 grid) the positions
\* taken are (1,0),(2,0),(2,1),(2,2): four position changes and two pops.
C20_StepAndPopCounts ==
  /\ []C20_Counts
  /\ [][grid = GridOf({}) =>
          /\ lastPop' # lastPop => lastPop'.id = lastPop.id + 1
          /\ pos' # pos =>
               /\ Manhattan(pos, pos') = 1
               /\ stepId' = lastPop'.id + 1]_vars

C20_Witness ==
  /\ grid = GridOf({})
  /\ reqNo = 2
  /\ moveQueue = <<>>
  /\ lastPop = [id |-> 2, dest |-> <<2, 2>>, by |-> 2, pos |-> <<2, 2>>,
                from |-> <<2, 0>>, steps |-> 2]
  /\ pos = <<2, 2>>
  /\ ~isMoving

\* ------------------------------------------------------------------ C21

\* The state part of C21.
C21_NoOp ==
  /\ script = "index.js" =>
       /\ (lastPop # NoPop /\ lastPop.from = lastPop.dest)
            => /\ lastPop.steps = 0
               /\ lastPop.pos = lastPop.dest
               /\ lastPop.by = lastPop.id
       /\ \A k \in 1 .. Len(loops) :
            loops[k].pc = "sleep" => loops[k].from # loops[k].dest
  /\ script = "part_001" =>
       /\ \A k \in 1 .. Len(finds) : finds[k].start # finds[k].goal
       /\ \A k \in 1 .. Len(shifts) :
            shifts[k].how = "reached immediately" => shifts[k].pos = shifts[k].goal
       /\ \A k \in 1 .. Len(procs) : Len(procs[k].path) >= 1 => procs[k].path[1] # procs[k].goal
       /\ ((\E k \in 1 .. Len(shifts) : shifts[k].how = "reached immediately")
            /\ destQueue # <<>>)
            => processing /\ procs # <<>>

\* C21: a head equal to the agent's position is popped with no step taken
\* for it and with the agent where it was, no traversal and no path lookup is
\* ever made for such a head, and the loop that popped it goes on with the
\* next destination of the queue.
C21_SamePositionNoOp ==
  /\ []C21_NoOp
  /\ [][(/\ script = "index.js"
         /\ lastPop' # lastPop
         /\ lastPop'.from = lastPop'.dest
         /\ moveQueue' # <<>>)
        => \E k \in 1 .. Len(loops') : loops'[k].id = Head(moveQueue').id]_vars

\* index.js: a head equal to the position was popped and the loop is on the
\* next destination.
C21_Witness ==
  /\ lastPop # NoPop
  /\ lastPop.from = lastPop.dest
  /\ lastPop.pos # <<0, 0>>
  /\ moveQueue # <<>>
  /\ last = "microtask"
  /\ \E k \in 1 .. Len(loops) :
       loops[k].id = Head(moveQueue).id /\ loops[k].id = lastPop.id + 1

\* part_001: a head equal to the player's tile was popped at once.
C21_WitnessQueue ==
  \E k \in 1 .. Len(shifts) :
    shifts[k] = [goal |-> shipPlayer, pos |-> shipPlayer, how |-> "reached immediately"]

\* ------------------------------------------------------------------ C22

\* The click on land tile c (paint mode off) left c in the queue behind the
\* entries that were there, or processQueue looked a path up for c in the
\* same task and dropped it for want of one.
Enqueued(c) ==
  \/ destQueue' = Append(destQueue, c)
  \/ /\ destQueue' = destQueue
     /\ \E k \in 1 .. Len(shifts') : shifts'[k].goal = c /\ shifts'[k].how = "no path"

IsQueued(c) == \E k \in 1 .. Len(destQueue) : destQueue[k] = c

\* C22 as claimed: every single click on a land tile, paint mode off,
\* appends the tile to destQueue, also when it is queued already.
C22_ClickAlwaysAppends ==
  [][\A c \in Tiles :
       (TileClick(c) /\ ~paintMode /\ tiles[c] = "land") => Enqueued(c)]_vars

\* C22 as amended: a single click on a land tile, paint mode off, appends
\* the tile exactly when it is neither queued already nor the player's tile;
\* otherwise it only becomes lastClicked and the queue, the player and the
\* traversals stay as they are.
C22_ClickAppendsUnlessQueued ==
  [][\A c \in Tiles :
       (TileClick(c) /\ ~paintMode /\ tiles[c] = "land") =>
         /\ lastClicked' = c
         /\ IF IsQueued(c) \/ shipPlayer = c
            THEN /\ destQueue' = destQueue
                 /\ shifts' = <<>>
                 /\ UNCHANGED <<shipPlayer, procs, processing, movementToken>>
            ELSE Enqueued(c)]_vars

\* A click was turned down because its tile is queued.
C22_Witness ==
  /\ script = "part_001"
  /\ IsQueued(lastClicked)
  /\ Len(destQueue) >= 2
  /\ destQueue[Len(destQueue)] # lastClicked
  /\ processing

\* ------------------------------------------------------------------ C23

\* C23 as claimed: movePlayerTo with a row or column outside the grid leaves
\* the player where it is.
C23_OutOfGridRejected ==
  [][\A c \in PlaceCells :
       (MovePlayerTo(c) /\ ~inBounds(c)) => shipPlayer' = shipPlayer]_vars

\* C23 as amended: movePlayerTo moves the player to the given cell when it is
\* in the grid and otherwise to the cell of the grid nearest to the given
\* coordinates (each coordinate clamped to its range); the player is on a
\* cell of the grid in every state.
C23_OutOfGridClamped ==
  /\ []inBounds(shipPlayer)
  /\ [][\A c \in PlaceCells :
         MovePlayerTo(c) =>
           /\ inBounds(c) => shipPlayer' = c
           /\ shipPlayer'[1] \in {c[1], 0, Rows - 1}
           /\ shipPlayer'[2] \in {c[2], 0, Cols - 1}
           /\ \A t \in Tiles : Manhattan(c, shipPlayer') <= Manhattan(c, t)]_vars

\* The player was put on the far corner by a call off the row and the
\* column range.
C23_Witness ==
  /\ script = "part_001"
  /\ shipPlayer = <<Rows - 1, Cols - 1>>
  /\ procs = <<>>
  /\ destQueue = <<>>
  /\ inputs = 1

\* ------------------------------------------------------------------ C24

\* The run of index.js with the twin on.
InitTwin ==
  /\ script = "index.js"
  /\ NotLoaded
  /\ grid \in {GridOf(w) : w \in Layouts}
  /\ moveQueue = <<>>
  /\ isMoving = FALSE
  /\ isInterrupted = FALSE
  /\ pos = <<0, 0>>
  /\ placedCell = <<0, 0>>
  /\ entity = {<<0, 0>>}
  /\ badges = {}
  /\ loops = <<>>
  /\ restartTimers = 0
  /\ reqNo = 0
  /\ last = "init"
  /\ lastReq = NoReq
  /\ stepId = 0
  /\ lastPop = NoPop
  /\ noPreempt = TRUE
  /\ lastPrio = 0
  /\ direct = [on |-> TRUE, raced |-> FALSE, p |-> Player]
  /\ ship = NoClicks

SpecTwin == InitTwin /\ [][Next]_vars

\* What the timers already pending will have done to the Player once the
\* restart timers have fired.
RECURSIVE Restarted(_)
Restarted(p) ==
  IF p.restartTimers = 0 THEN p
  ELSE Restarted(ProcessMoveQueue([p EXCEPT !.restartTimers = @ - 1]))

\* The positions and queue contents of the twin are those of index.js.
SameObservable ==
  LET q == Restarted(Player) IN
  /\ direct.p.pos = q.pos
  /\ direct.p.moveQueue = q.moveQueue
  /\ direct.p.entity = q.entity

C25_QueueIntact ==
  /\ \A k \in 1 .. Len(moveQueue) - 1 : moveQueue[k + 1].id = moveQueue[k].id + 1
  /\ moveQueue # <<>> =>
       /\ moveQueue[Len(moveQueue)].id = reqNo
       /\ moveQueue[1].id >= lastPrio
       /\ lastReq.kind # "stopAllMovement"

\* C25: a loop that leaves on the interrupt (scheduling its restart) pops
\* nothing; the queue is at all times the installed entry and the requests
\* enqueued after it, in order, less what an uninterrupted loop has popped
\* from the head; and the loop a restart timer starts finds that queue
\* untouched and takes up its head.
C25_InterruptedLoopKeepsQueue ==
  /\ []C25_QueueIntact
  /\ [][/\ restartTimers' > restartTimers =>
             /\ moveQueue' = moveQueue
             /\ lastPop' = lastPop
             /\ ~isMoving'
        /\ lastPop' # lastPop =>
             /\ ~isInterrupted
             /\ moveQueue # <<>>
             /\ moveQueue' = Tail(moveQueue)
             /\ lastPop'.id = Head(moveQueue).id
        /\ (last' = "restart" /\ isMoving' /\ ~isMoving) =>
             /\ moveQueue' = moveQueue
             /\ \E k \in 1 .. Len(loops') : loops'[k].id = Head(moveQueue).id]_vars

\* The restarted loop begins with the entry of moveToPriority and a
\* destination enqueued after it.
C25_Witness ==
  /\ last = "restart"
  /\ isMoving
  /\ lastPrio > 0
  /\ Len(moveQueue) = 2
  /\ moveQueue[1].id = lastPrio
  /\ lastReq.kind = "moveTo"
  /\ \E k \in 1 .. Len(loops) : loops[k].id = lastPrio /\ loops[k].pc = "sleep"

\* ------------------------------------------------------------------ C26

\* C26: the entry a processing loop removes after its traversal is the
\* destination the traversal was for (or nothing, the queue being empty): a
\* destination enqueued after a cancellation is not removed by the loop
\* whose traversal was cancelled.
C26_CancelledLoopRemovesNothingNewer ==
  [][\A k \in 1 .. Len(procs) :
       QueueContinue(k) =>
         /\ shifts' # <<>>
         /\ shifts'[1].how = "followed"
         /\ shifts'[1].goal \in {procs[k].goal, NoCell}]_vars

\* ------------------------------------------------------------------ C27

\* Clicks and double-clicks on the far corner and on the tiles next to the
\* start, with the timers and continuations of part_001.
RaceTiles == { <<0, 0>>, <<1, 1>>, <<Rows - 1, Cols - 1>> }

NextRace ==
  \/ \E c \in RaceTiles : TileClick(c)
  \/ \E c \in RaceTiles : TileDblClick(c)
  \/ \E k \in 1 .. Len(procs) : StepExpire(k)
  \/ \E k \in 1 .. Len(procs) : QueueContinue(k)
  \/ \E k \in 1 .. Len(waiters) : WaitExpire(k)
  \/ \E k \in 1 .. Len(waiters) : ClearContinue(k)

SpecRace == InitQueue /\ [][NextRace]_vars

\* The timers and continuations of the event loop always run in the end.
FairRace ==
  /\ SpecRace
  /\ WF_vars(\E k \in 1 .. Len(procs) : StepExpire(k))
  /\ WF_vars(\E k \in 1 .. Len(procs) : QueueContinue(k))
  /\ WF_vars(\E k \in 1 .. Len(waiters) : WaitExpire(k))
  /\ WF_vars(\E k \in 1 .. Len(waiters) : ClearContinue(k))

\* Two double-clicks, on d1 and then on d2, were both made during one
\* traversal: both handlers wait in clearQueue and the traversal, whose token
\* is two behind, has not stopped yet.
SupersededBy(d1, d2) ==
  /\ Len(waiters) = 2
  /\ waiters[1].then = "enqueue" /\ waiters[1].dest = d1
  /\ waiters[2].then = "enqueue" /\ waiters[2].dest = d2
  /\ \E k \in 1 .. Len(procs) : procs[k].token = movementToken - 2

\* The latest task looked up a path toward d and started a traversal that
\* moves the player.
SentTo(d) ==
  \E k \in 1 .. Len(finds) : finds[k].goal = d /\ Len(finds[k].path) > 1

\* C27: once (0,0) was double-clicked during the traversal that the
\* double-click on the far corner cancelled, and as long as no further input
\* arrives, the player is never sent toward the far corner.
C27_LatestPriorityWins ==
  \A n \in 0 .. MaxInput :
    [](SupersededBy(<<Rows - 1, Cols - 1>>, <<0, 0>>) /\ inputs = n
         => [](inputs = n => ~SentTo(<<Rows - 1, Cols - 1>>)))

\* ------------------------------------------------------------------ C28

\* No traversal holds a token of the future.
C28_TokensSeen == \A k \in 1 .. Len(procs) : procs[k].token <= movementToken

\* C28: movementToken never decreases; every clearQueue (Space, double Space,
\* double-click on a land tile) adds one to it and nothing else changes it; a
\* followPath whose token differs from movementToken when its delay ends
\* returns without a move, and every move of the player is committed by a
\* followPath holding the current token.
C28_GenerationToken ==
  /\ []C28_TokensSeen
  /\ [][/\ movementToken' >= movementToken
        /\ (SpacePress \/ SpaceDoublePress) => movementToken' = movementToken + 1
        /\ \A c \in ClickTiles :
             (TileDblClick(c) /\ tiles[c] = "land") => movementToken' = movementToken + 1
        /\ movementToken' # movementToken =>
             /\ movementToken' = movementToken + 1
             /\ Len(waiters') = Len(waiters) + 1
             /\ destQueue' = <<>>
        /\ \A k \in 1 .. Len(procs) :
             (StepExpire(k) /\ procs[k].token # movementToken) =>
               /\ shipPlayer' = shipPlayer
               /\ \E j \in 1 .. Len(procs') :
                    procs'[j].pc = "await" /\ procs'[j].goal = procs[k].goal
        /\ shipPlayer' # shipPlayer =>
             \E j \in 1 .. Len(procs') :
               /\ procs'[j].pc = "sleep"
               /\ procs'[j].token = movementToken'
               /\ procs'[j].path[procs'[j].i + 1] = shipPlayer']_vars

\* A followPath with steps left to take is in its delay while movementToken
\* has moved on from the token it captured; the player stands on the step it
\* committed last.
C28_Witness ==
  \E k \in 1 .. Len(procs) :
    /\ procs[k].pc = "sleep"
    /\ procs[k].token < movementToken
    /\ procs[k].i + 1 < Len(procs[k].path)
    /\ shipPlayer = procs[k].path[procs[k].i + 1]

\* ------------------------------------------------------------------ C29

\* The scheduler of index.js is at rest with nothing left to do.
AtRest ==
  /\ moveQueue = <<>>
  /\ ~isMoving
  /\ restartTimers = 0
  /\ loops = <<>>

\* C29: after any number n of moveTo, moveToPriority and stopAllMovement
\* calls, unless a further call arrives, the scheduler comes to rest with
\* moveQueue empty, _isMoving false and no restart pending; a restart is
\* scheduled only by the exit of an interrupted loop, one per exit, and the
\* loop it starts schedules none by itself.
C29_Quiescence ==
  /\ \A n \in 0 .. MaxReq : (reqNo = n) ~> (reqNo # n \/ AtRest)
  /\ [][/\ restartTimers' > restartTimers =>
             /\ restartTimers' = restartTimers + 1
             /\ isMoving /\ ~isMoving'
             /\ Len(loops') < Len(loops)
        /\ last' = "restart" => restartTimers' = restartTimers - 1]_vars

\* ------------------------------------------------------------------ C30

\* C30: whenever moveQueue holds a destination inside the grid, a processing
\* loop is running (_isMoving is true) or a restart timer is pending.
C30_NoOrphanedQueue ==
  (\E k \in 1 .. Len(moveQueue) : InBounds(moveQueue[k].dest))
    => (isMoving \/ restartTimers > 0)

\* ------------------------------------------------------------------ C31

\* Runs that begin with stopAllMovement on the idle agent: the first request
\* is the stop, every later request is any of the three.
StopIdle == reqNo = 0 /\ StopAllMovement

NextStale ==
  \/ StopIdle
  \/ \E d \in Dests : reqNo > 0 /\ MoveTo(d)
  \/ \E d \in Dests : reqNo > 0 /\ MoveToPriority(d)
  \/ reqNo > 0 /\ StopAllMovement
  \/ \E k \in 1 .. Len(loops) : SleepExpire(k)
  \/ \E k \in 1 .. Len(loops) : Microtask(k)
  \/ RestartFire

SpecStale == Init /\ [][NextStale]_vars

\* The timers and continuations of the event loop always run in the end.
FairStale ==
  /\ SpecStale
  /\ WF_vars(\E k \in 1 .. Len(loops) : SleepExpire(k))
  /\ WF_vars(\E k \in 1 .. Len(loops) : Microtask(k))
  /\ WF_vars(RestartFire)

\* The interrupt flag is raised while no loop is running.
StaleFlag == isInterrupted /\ ~isMoving

\* C31: a moveTo or moveToPriority to a tile the agent can reach, made next
\* after a stopAllMovement that left the interrupt flag raised with no loop
\* running, starts a loop that is suspended on that destination with the flag
\* cleared; and the request that
\* follows the stop of an idle agent is, unless a further request arrives,
\* traversed from where the agent stood to the destination and popped.
C31_StaleFlagHarmless ==
  /\ [][(/\ StaleFlag /\ lastReq.kind = "stopAllMovement"
          /\ reqNo' = reqNo + 1
          /\ lastReq'.kind \in {"moveTo", "moveToPriority"}
          /\ CanReach(grid, pos, lastReq'.dest))
         => /\ isMoving' /\ ~isInterrupted'
            /\ moveQueue' = <<[dest |-> lastReq'.dest, id |-> reqNo']>>
            /\ \E k \in 1 .. Len(loops') : loops'[k].id = reqNo']_vars
  /\ (/\ reqNo = 2 /\ lastReq.id = 2
      /\ lastReq.kind \in {"moveTo", "moveToPriority"}
      /\ CanReach(grid, lastReq.pos, lastReq.dest))
       ~> \/ reqNo # 2
          \/ /\ pos = lastReq.dest /\ moveQueue = <<>> /\ ~isMoving
             /\ lastPop.id = 2 /\ lastPop.from = lastReq.pos
             /\ lastPop.pos = lastReq.dest

\* The request after the stop of the idle agent was served by a traversal of
\* several steps.
C31_Witness ==
  /\ reqNo = 2 /\ lastReq.id = 2
  /\ lastReq.kind \in {"moveTo", "moveToPriority"}
  /\ lastPop.id = 2
  /\ lastPop.steps > 1
  /\ pos = lastReq.dest
  /\ moveQueue = <<>>
  /\ ~isMoving

\* ------------------------------------------------------------------ C32

\* The agent of either script stands on a coordinate of its grid.
C32_OnGrid ==
  /\ script = "index.js" => InBounds(pos) /\ placedCell = pos
  /\ script = "part_001" => inBounds(shipPlayer)

\* C32: the agent always stands on a coordinate of the grid; every change of
\* its position goes to a 4-neighbour (Manhattan distance exactly 1) inside
\* the grid, and is the step a traversal has just committed: the loop of
\* _executeMoveTo, or followPath, is in its delay after the path cell the
\* agent now stands on.
C32_UnitSteps ==
  /\ []C32_OnGrid
  /\ [][/\ pos' # pos =>
             /\ Manhattan(pos, pos') = 1
             /\ InBounds(pos')
             /\ \E k \in 1 .. Len(loops') :
                  /\ loops'[k].pc = "sleep"
                  /\ loops'[k].path[loops'[k].i + 1] = pos'
                  /\ loops'[k].path[loops'[k].i] = pos
        /\ shipPlayer' # shipPlayer =>
             /\ Manhattan(shipPlayer, shipPlayer') = 1
             /\ inBounds(shipPlayer')
             /\ \E k \in 1 .. Len(procs') :
                  /\ procs'[k].pc = "sleep"
                  /\ procs'[k].path[procs'[k].i + 1] = shipPlayer']_vars

\* The agent has walked two steps of one path and is in the delay of the
\* second (index.js), or the player is (part_001).
C32_Witness ==
  \/ \E k \in 1 .. Len(loops) :
       loops[k].pc = "sleep" /\ loops[k].i = 2 /\ loops[k].path[3] = pos
  \/ \E k \in 1 .. Len(procs) :
       procs[k].pc = "sleep" /\ procs[k].i = 2 /\ procs[k].path[3] = shipPlayer

\* ------------------------------------------------- index.js: the Ship's clicks

\* The pending timer whose handle is h (none when h is null or was cleared).
TimerOf(s, h) == {t \in s.timers : t.id = h}

\* Variant for C33: the click listener sets its timer without clearing the
\* previous one.
CellClick_NoClear(s, c) ==
  [s EXCEPT !.timers = @ \cup {[id |-> s.clicks + 1, cell |-> c]},
            !.clickTimer = s.clicks + 1,
            !.clicks = @ + 1,
            !.gesture = IF @.cell = c /\ @.n = 1 THEN [cell |-> c, n |-> 2]
                        ELSE [cell |-> c, n |-> 1]]

\* The click listener of cell c: clearTimeout(this.clickTimer), then
\* this.clickTimer = setTimeout(.., this.clickDelay).
CellClick(s, c) ==
  [s EXCEPT !.timers = (@ \ TimerOf(s, s.clickTimer))
                         \cup {[id |-> s.clicks + 1, cell |-> c]},
            !.clickTimer = s.clicks + 1,
            !.clicks = @ + 1,
            !.gesture = IF @.cell = c /\ @.n = 1 THEN [cell |-> c, n |-> 2]
                        ELSE [cell |-> c, n |-> 1]]

\* The dblclick listener before its call of interactInput.
CellDblClick(s) ==
  [s EXCEPT !.timers = @ \ TimerOf(s, s.clickTimer),
            !.clickTimer = 0,
            !.dbls = @ + 1,
            !.gesture = [cell |-> NoCell, n |-> 0]]

\* The callback of timer t once interactInput(cell, x, y, 'single') has
\* returned (threw: it did not return and clickTimer keeps its value).
ClickTimeout(s, t, threw) ==
  [s EXCEPT !.timers = @ \ {t},
            !.clickTimer = IF threw THEN @ ELSE 0,
            !.fired = t.id]

\* Cells of the grid that are clicked.
ClickCells == { <<1, 1>>, <<2, 0>>, <<0, 2>> }

\* click on cell c (a task of the event loop); a click yields at most one
\* request, so the clicks are bounded as the requests are.
Click(c) ==
  /\ script = "index.js"
  /\ ship.clicks < MaxReq
  /\ ~MicrotaskPending
  /\ ship' = CellClick(ship, c)
  /\ last' = "click"
  /\ Install(Player)
  /\ UNCHANGED <<grid, reqNo, lastReq, noPreempt, lastPrio, direct>>

\* dblclick on cell c: the browser dispatches it right after the second of
\* two clicks on c.
DblClick(c) ==
  /\ last = "click"
  /\ ship.gesture = [cell |-> c, n |-> 2]
  /\ ship' = CellDblClick(ship)
  /\ Requested("moveToPriority", c, MaxReq)
  /\ \E np \in {PlayerMoveToPriority([Player EXCEPT !.stepId = 0],
                                       [dest |-> c, id |-> reqNo + 1])} : Install(np)

\* The single-click timer t expires clickDelay after its click.
ClickTimerFire(t) ==
  /\ t \in ship.timers
  /\ ship' = ClickTimeout(ship, t,
                UpdateDestinationBadges(
                  Append(moveQueue, [dest |-> t.cell, id |-> reqNo + 1])).threw)
  /\ Requested("moveTo", t.cell, MaxReq)
  /\ \E np \in {PlayerMoveTo([Player EXCEPT !.stepId = 0],
                               [dest |-> t.cell, id |-> reqNo + 1])} : Install(np)

NextShip ==
  \/ \E c \in ClickCells : Click(c)
  \/ \E c \in ClickCells : DblClick(c)
  \/ \E t \in ship.timers : ClickTimerFire(t)
  \/ \E k \in 1 .. Len(loops) : SleepExpire(k)
  \/ \E k \in 1 .. Len(loops) : Microtask(k)
  \/ RestartFire

SpecShip == Init /\ [][NextShip]_vars

\* The timers and continuations of the event loop always run in the end.
FairShip ==
  /\ SpecShip
  /\ WF_vars(\E t \in ship.timers : ClickTimerFire(t))
  /\ WF_vars(\E k \in 1 .. Len(loops) : SleepExpire(k))
  /\ WF_vars(\E k \in 1 .. Len(loops) : Microtask(k))
  /\ WF_vars(RestartFire)

\* ------------------------------------------------------------------ C33

\* At most one single-click timer is pending, and clickTimer is its handle.
C33_OneTimer ==
  /\ Cardinality(ship.timers) <= 1
  /\ ship.timers = TimerOf(ship, ship.clickTimer)
  /\ ship.clickTimer = 0 <=> ship.timers = {}

\* C33: at most one single-click timer is pending at any time; a click makes
\* no request and leaves its own timer as the only one; the dblclick that
\* follows two clicks on a cell makes exactly one moveToPriority for that
\* cell and leaves no timer, so that no moveTo comes of the two clicks when
\* none came before the second; a timer that expires makes exactly one moveTo
\* for its cell and is gone; and the timer of a click that no click or
\* dblclick follows does expire.
C33_ClickOrDblClick ==
  /\ []C33_OneTimer
  /\ [][/\ \A c \in ClickCells :
             Click(c) => /\ reqNo' = reqNo /\ moveQueue' = moveQueue
                         /\ ship'.timers = {[id |-> ship'.clicks, cell |-> c]}
        /\ \A c \in ClickCells :
             DblClick(c) => /\ reqNo' = reqNo + 1
                            /\ lastReq'.kind = "moveToPriority"
                            /\ lastReq'.dest = c
                            /\ moveQueue' = <<[dest |-> c, id |-> reqNo']>>
                            /\ ship'.timers = {}
                            /\ ship'.fired = ship.fired
        /\ \A t \in ship.timers :
             ClickTimerFire(t) => /\ reqNo' = reqNo + 1
                                  /\ lastReq'.kind = "moveTo"
                                  /\ lastReq'.dest = t.cell
                                  /\ ship'.timers = {}
                                  /\ ship'.clickTimer = 0
        /\ reqNo' # reqNo => ship'.fired # ship.fired \/ ship'.dbls # ship.dbls]_vars
  /\ \A n \in 1 .. MaxReq : \A m \in 0 .. MaxReq :
       (ship.clicks = n /\ ship.clickTimer = n /\ ship.dbls = m)
         ~> (ship.clicks # n \/ ship.dbls # m \/ ship.fired = n)

\* Two clicks and a dblclick on a cell within clickDelay made one
\* moveToPriority and no moveTo, and a later lone click on another cell has
\* made one moveTo.
C33_Witness ==
  /\ ship.clicks = 3
  /\ ship.dbls = 1
  /\ ship.fired = 3
  /\ reqNo = 2
  /\ lastReq.kind = "moveTo"
  /\ ship.timers = {}

\* ------------------------------------------------------------------ C34

\* The page of part_001 alone.
SpecQueue == InitQueue /\ [][NextQueue]_vars

\* The timers and continuations of the event loop always run in the end.
FairQueue ==
  /\ SpecQueue
  /\ WF_vars(\E k \in 1 .. Len(procs) : StepExpire(k))
  /\ WF_vars(\E k \in 1 .. Len(procs) : QueueContinue(k))
  /\ WF_vars(\E k \in 1 .. Len(waiters) : WaitExpire(k))
  /\ WF_vars(\E k \in 1 .. Len(waiters) : ClearContinue(k))

\* The promise of a clearQueue call has resolved (its continuation is the
\* next thing to run): no processing loop is active and destQueue is empty.
C34_ResolvedWhenIdle ==
  \A k \in 1 .. Len(waiters) :
    waiters[k].pc = "await" =>
      /\ ~processing
      /\ destQueue = <<>>
      /\ procs = <<>>

\* C34: the promise returned by clearQueue resolves only when no processing
\* loop is active, with destQueue empty; and once the n-th input has been
\* made, unless a further input arrives, every clearQueue that is waiting
\* resolves and its handler goes on.
C34_ClearQueueCompletes ==
  /\ []C34_ResolvedWhenIdle
  /\ \A n \in 0 .. MaxInput :
       (inputs = n /\ waiters # <<>>) ~> (inputs # n \/ waiters = <<>>)

\* A clearQueue that had to wait for the loop has resolved, while one called
\* after it is still waiting for its next look at `processing`.
C34_Witness ==
  \E k, j \in 1 .. Len(waiters) :
    /\ k < j
    /\ waiters[k].pc = "await"
    /\ waiters[j].pc = "sleep"

\* ------------------------------------------- part_000: the single-move Player

\* The animation loop of moveTo from its test `i < path.length`; the finally
\* block clears _isMoving when the loop is left.
SingleStep(p, path, i, e) ==
  IF i >= Len(path) THEN [p EXCEPT !.isMoving = FALSE]
  ELSE LET next == path[i + 1] IN
       Suspend([p EXCEPT !.entity = (@ \ {p.placedCell}) \cup {next},
                         !.placedCell = next,
                         !.pos = next],
               Sleeping(path, i, e))

\* Variant for C35: moveTo without the guard on _isMoving.
SingleMoveTo_NoGuard(p, e) ==
  IF ~InBounds(e.dest) THEN p
  ELSE IF grid[e.dest] # "land" THEN p
  ELSE IF p.placedCell = e.dest THEN p
  ELSE Only({IF Len(path) <= 1 THEN p
             ELSE SingleStep([p EXCEPT !.isMoving = TRUE], path, 1, e) :
               path \in {FindPathBFS(grid, p.placedCell, e.dest)}})

\* moveTo(cell, x, y) of part_000 up to its first suspension or its return;
\* its search is the one of _executeMoveTo in index.js.
SingleMoveTo(p, e) ==
  IF p.isMoving THEN p
  ELSE IF ~InBounds(e.dest) THEN p
  ELSE IF grid[e.dest] # "land" THEN p
  ELSE IF p.placedCell = e.dest THEN p
  ELSE Only({IF Len(path) <= 1 THEN p
             ELSE SingleStep([p EXCEPT !.isMoving = TRUE], path, 1, e) :
               path \in {FindPathBFS(grid, p.placedCell, e.dest)}})

\* DOMContentLoaded of part_000: new Ship(..), new Player(0, 0),
\* ship.initPlayer(player).
InitSingle ==
  /\ script = "part_000"
  /\ NotLoaded
  /\ grid \in {GridOf(w) : w \in Layouts}
  /\ moveQueue = <<>>
  /\ isMoving = FALSE
  /\ isInterrupted = FALSE
  /\ pos = <<0, 0>>
  /\ placedCell = <<0, 0>>
  /\ entity = {<<0, 0>>}
  /\ badges = {}
  /\ loops = <<>>
  /\ restartTimers = 0
  /\ reqNo = 0
  /\ last = "init"
  /\ lastReq = NoReq
  /\ stepId = 0
  /\ lastPop = NoPop
  /\ noPreempt = TRUE
  /\ lastPrio = 0
  /\ direct = NoTwin
  /\ ship = NoClicks

\* click on a cell: interactInput(cell, x, y) calls player.moveTo(cell, x, y).
SingleMove(d) ==
  /\ script = "part_000"
  /\ reqNo < MaxReq
  /\ reqNo' = reqNo + 1
  /\ last' = "moveTo"
  /\ lastReq' = [kind |-> "moveTo", dest |-> d, id |-> reqNo + 1, pos |-> pos,
                 inflight |-> InFlight]
  /\ \E np \in {SingleMoveTo(Player, [dest |-> d, id |-> reqNo + 1])} : Install(np)
  /\ UNCHANGED <<grid, noPreempt, lastPrio, direct, ship>>

\* The step delay of the traversal expires: the loop goes on with i++.
SingleSleepExpire(k) ==
  /\ script = "part_000"
  /\ loops[k].pc = "sleep"
  /\ LET l == loops[k] IN
       \E np \in {SingleStep([Player EXCEPT !.loops = RemoveAt(@, k)], l.path, l.i + 1,
                               [dest |-> l.dest, id |-> l.id])} : Install(np)
  /\ last' = "sleepExpire"
  /\ UNCHANGED <<grid, reqNo, lastReq, noPreempt, lastPrio, direct, ship>>

NextSingle ==
  \/ \E d \in Dests : SingleMove(d)
  \/ \E k \in 1 .. Len(loops) : SingleSleepExpire(k)

SpecSingle == InitSingle /\ [][NextSingle]_vars

\* ------------------------------------------------------------------ C35

\* _isMoving is true exactly while one traversal is suspended in a step delay.
C35_MovingIffInFlight ==
  /\ Len(loops) <= 1
  /\ isMoving <=> loops # <<>>
  /\ \A k \in 1 .. Len(loops) :
       /\ loops[k].pc = "sleep"
       /\ loops[k].path[loops[k].i + 1] = pos

\* C35: a moveTo called while a traversal is in progress changes neither the
\* position, nor the path in flight, nor _isMoving; _isMoving is true exactly
\* while a traversal is suspended between its first step and its end: it
\* becomes true in the task that commits the first step and false in the
\* task in which the delay of the last step of the path ends.
C35_SingleMove ==
  /\ []C35_MovingIffInFlight
  /\ [][/\ \A d \in Dests :
             (SingleMove(d) /\ isMoving) =>
               /\ pos' = pos /\ placedCell' = placedCell /\ entity' = entity
               /\ loops' = loops
               /\ isMoving'
        /\ (isMoving' /\ ~isMoving) =>
             /\ pos' # pos
             /\ loops'[1].i = 1 /\ loops'[1].path[1] = pos
        /\ (isMoving /\ ~isMoving') =>
             /\ pos' = pos
             /\ pos = loops[1].dest
             /\ loops[1].i + 1 = Len(loops[1].path)]_vars

\* A moveTo to another tile was made during a traversal that has steps left.
C35_Witness ==
  /\ script = "part_000"
  /\ isMoving
  /\ lastReq.inflight
  /\ loops # <<>>
  /\ lastReq.id # loops[1].id
  /\ lastReq.dest # loops[1].dest
  /\ CanReach(grid, pos, lastReq.dest)
  /\ loops[1].i + 1 < Len(loops[1].path)

\* ------------------------------------------------------------------ C36

\* The index (from 1) of the first entry of q whose coordinate is c.
FirstIndex(q, c) == CHOOSE k \in 1 .. Len(q) :
                      /\ q[k].dest = c
                      /\ \A j \in 1 .. k - 1 : q[j].dest # c

\* C36: the badged cells are the distinct coordinates of moveQueue that lie in
\* the grid, and each badge shows 1 plus the (0-based) index of the first
\* occurrence of its coordinate in the queue.
C36_BadgesMirrorQueue ==
  badges = {[cell |-> c, text |-> FirstIndex(moveQueue, c)] :
              c \in {moveQueue[k].dest : k \in {j \in 1 .. Len(moveQueue) :
                                                 InBounds(moveQueue[j].dest)}}}

=============================================================================
